---- MODULE Spec2Model ----
(***************************************************************************)
(* State-machine model of the server-authoritative core of the MMO         *)
(* project: player/session lifecycle (ServerModule), NPC behaviour         *)
(* (CustomServerModule/src/ai.rs) and inventory                            *)
(* (CustomServerModule/src/mechanics.rs).                                  *)
(*                                                                         *)
(* Every reducer is one action.  A reducer that returns Err leaves the     *)
(* tables as they were (the host aborts the transaction); only the         *)
(* history variable "last" records the failed call.                        *)
(*                                                                         *)
(* f32 values are records [k, v]: k = "num" with an integer v, "nan", or   *)
(* "inf" with v = 1 / -1.  Positions are fixed-point, in hundredths of a   *)
(* game unit; health and damage are in whole units.                        *)
(***************************************************************************)
EXTENDS Integers, Sequences, FiniteSets, TLC

VARIABLES now, users, sessions, players, npcs, inventory, skills, results, heap, last

vars == <<now, users, sessions, players, npcs, inventory, skills, results, heap, last>>

-----------------------------------------------------------------------------
(* f32 arithmetic                                                          *)

F(n) == [k |-> "num", v |-> n]

NaN == [k |-> "nan", v |-> 0]

PosInf == [k |-> "inf", v |-> 1]

NegInf == [k |-> "inf", v |-> -1]

is_finite(a) == a.k = "num"

FNeg(a) == IF a.k = "nan" THEN NaN ELSE [k |-> a.k, v |-> 0 - a.v]

FAdd(a, b) ==
  IF a.k = "nan" \/ b.k = "nan" THEN NaN
  ELSE IF a.k = "inf" /\ b.k = "inf" THEN (IF a.v = b.v THEN a ELSE NaN)
  ELSE IF a.k = "inf" THEN a
  ELSE IF b.k = "inf" THEN b
  ELSE F(a.v + b.v)

FSub(a, b) == FAdd(a, FNeg(b))

\* a < b on f32: every comparison with NaN is false
FLt(a, b) ==
  IF a.k = "nan" \/ b.k = "nan" THEN FALSE
  ELSE IF a.k = "inf" THEN a.v < 0 /\ ~(b.k = "inf" /\ b.v < 0)
  ELSE IF b.k = "inf" THEN b.v > 0
  ELSE a.v < b.v

FGt(a, b) == FLt(b, a)

FEq(a, b) == a.k # "nan" /\ b.k # "nan" /\ a = b

FLe(a, b) == FLt(a, b) \/ FEq(a, b)

FGe(a, b) == FLe(b, a)

\* f32::max / f32::min: when one operand is NaN the other is returned
FMax(a, b) == IF a.k = "nan" THEN b ELSE IF b.k = "nan" THEN a ELSE IF FLt(a, b) THEN b ELSE a

FMin(a, b) == IF a.k = "nan" THEN b ELSE IF b.k = "nan" THEN a ELSE IF FLt(b, a) THEN b ELSE a

RECURSIVE SqrtIter(_, _)
SqrtIter(n, x) ==
  CHOOSE r \in {IF y >= x THEN x ELSE SqrtIter(n, y) : y \in {(x + (n \div x)) \div 2}} : TRUE

\* floor of the square root
ISqrt(n) == IF n <= 0 THEN 0 ELSE SqrtIter(n, n)

\* square root rounded up: for an integer r, CeilSqrt(n) > r iff sqrt(n) > r
CeilSqrt(n) == LET r == ISqrt(n) IN IF r * r = n THEN r ELSE r + 1

\* square root rounded to nearest
RoundSqrt(n) == LET r == ISqrt(n) IN IF n - r * r > r THEN r + 1 ELSE r

\* (a - b)^2 as an f32
FSqDiff(a, b) ==
  LET d == FSub(a, b)
  IN  IF d.k = "nan" THEN NaN ELSE IF d.k = "inf" THEN PosInf ELSE F(d.v * d.v)

\* sqrt((x2-x1)^2 + (y2-y1)^2 + (z2-z1)^2), rounded up
calculate_distance(x1, y1, z1, x2, y2, z2) ==
  CHOOSE d \in {IF s.k = "num" THEN F(CeilSqrt(s.v)) ELSE s :
                 s \in {FAdd(FAdd(FSqDiff(x2, x1), FSqDiff(y2, y1)), FSqDiff(z2, z1))}} : TRUE

-----------------------------------------------------------------------------
(* Program constants (positions in hundredths of a unit, time in seconds)  *)

PosScale == 100

MAX_MOVEMENT_DISTANCE == 5000

INACTIVITY_TIMEOUT_SECONDS == 300

RespawnDuration == 30

WORLD_MIN == -1000000

WORLD_MAX == 1000000

PerceptionRadius == 1000

AttackRange == 500

ChaseSpeed == 200

FleeSpeed == 300

PatrolDistance == 500

MaxSlotIndex == 100

-----------------------------------------------------------------------------
(* Bounds of the model                                                     *)

MaxNpcTime == 30

MaxSessionTime == 301

Ids == {"a", "b"}

NoOne == "none"

Zones == {"default", "forest"}

-----------------------------------------------------------------------------
(* Tables.  A table is a function whose domain is the set of primary keys  *)
(* that have a row.  Timestamp columns that no reducer reads (created_at,  *)
(* last_login, login_time, last_seen) are left out.                        *)

EmptyTable == [k \in {} |-> 0]

Insert(table, key, row) == [k \in (DOMAIN table) \cup {key} |-> IF k = key THEN row ELSE table[k]]

Delete(table, key) == [k \in (DOMAIN table) \ {key} |-> table[k]]

Tables == [users |-> users, sessions |-> sessions, players |-> players, npcs |-> npcs,
           inventory |-> inventory, skills |-> skills]

\* the record of the latest call: reducer, caller, arguments, result, call
\* timestamp and the tables as they were when the call started
Call(op, who, arg, ok) == [op |-> op, who |-> who, arg |-> arg, ok |-> ok, t |-> now, pre |-> Tables]

\* A reducer that returned Err: the host aborts the transaction
Fail(op, who, arg) ==
  /\ last' = Call(op, who, arg, FALSE)
  /\ UNCHANGED <<now, users, sessions, players, npcs, inventory, skills, results, heap>>

\* the writes of a reducer that returned Err are kept
RollbackKeepsWrites(before, written) == written

\* what a table holds after a reducer that wrote to it returned Err: the
\* host aborts the transaction, which discards the writes
Rollback(before, written) == before

\* A reducer that returned Err after it had written to player_inventory
FailInventory(op, who, arg, written) ==
  /\ inventory' = Rollback(inventory, written)
  /\ last' = Call(op, who, arg, FALSE)
  /\ UNCHANGED <<now, users, sessions, players, npcs, skills, results, heap>>

-----------------------------------------------------------------------------
(* ServerModule: table helpers                                             *)

\* User::filter_by_username
UsersNamed(username) == {i \in DOMAIN users : users[i].username = username}

\* GameSession::update_activity
update_activity(ss, identity, timestamp) ==
  IF identity \in DOMAIN ss
  THEN [ss EXCEPT ![identity].last_activity = timestamp]
  ELSE ss

\* GameSession::create_session
create_session(ss, identity, timestamp) == Insert(ss, identity, [last_activity |-> timestamp])

\* the session is left in the table
remove_session_kept(ss, identity) == ss

\* GameSession::remove_session
remove_session(ss, identity) == Delete(ss, identity)

\* sessions idle for exactly the timeout count as inactive
get_inactive_sessions_inclusive(ss, cutoff_time) == {i \in DOMAIN ss : ss[i].last_activity <= cutoff_time}

\* sessions idle for more than a second beyond the cutoff
get_inactive_sessions_late(ss, cutoff_time) == {i \in DOMAIN ss : ss[i].last_activity < cutoff_time - 1}

\* GameSession::get_inactive_sessions
get_inactive_sessions(ss, cutoff_time) == {i \in DOMAIN ss : ss[i].last_activity < cutoff_time}

\* Player::set_online_status
set_online_status(ps, identity, is_online) ==
  IF identity \in DOMAIN ps
  THEN [ps EXCEPT ![identity].is_online = is_online]
  ELSE ps

\* Player::create_player
create_player(ps, identity, username, starting_zone) ==
  Insert(ps, identity,
    [username |-> username, position_x |-> F(0), position_y |-> F(0), position_z |-> F(0),
     rotation_yaw |-> F(0), level |-> 1, experience |-> 0, health |-> F(100),
     max_health |-> F(100), is_online |-> TRUE, current_zone |-> starting_zone])

\* Player::update_position
update_position(ps, identity, x, y, z, yaw) ==
  IF identity \in DOMAIN ps
  THEN [ps EXCEPT ![identity].position_x = x, ![identity].position_y = y,
                  ![identity].position_z = z, ![identity].rotation_yaw = yaw]
  ELSE ps

-----------------------------------------------------------------------------
(* SharedModule/src/utils.rs: input validation                             *)

Usernames == {"alice", "bob", "al"}

MIN_USERNAME_LENGTH == 3

MAX_USERNAME_LENGTH == 20

MIN_PASSWORD_LENGTH == 8

\* str::len of the strings the model uses
StrLen(str) ==
  CASE str = "alice" -> 5
    [] str = "bob" -> 3
    [] str = "al" -> 2
    [] str = "password1" -> 9
    [] str = "short" -> 5
    [] str = "wrongpass" -> 9
    [] OTHER -> 0

\* all the model's usernames are alphanumeric, none has surrounding blanks
validate_username(username) ==
  /\ StrLen(username) # 0
  /\ StrLen(username) >= MIN_USERNAME_LENGTH
  /\ StrLen(username) <= MAX_USERNAME_LENGTH

validate_password(password) == StrLen(password) >= MIN_PASSWORD_LENGTH

\* email.contains('@') && email.contains('.')
validate_email(email) == email = "a@b.c"

\* generate_salt: a digest of the caller identity and the call timestamp
generate_salt(identity, timestamp) == <<identity, timestamp>>

\* hash_password: a digest of password and salt (injective in the model)
hash_password(password, salt) == <<password, salt>>

verify_password(password, stored_hash, salt) == hash_password(password, salt) = stored_hash

-----------------------------------------------------------------------------
(* ServerModule/src/reducers/auth.rs                                       *)

register_user(c, username, password, email) ==
  LET arg == [username |-> username, password |-> password, email |-> email]
      salt == generate_salt(c, now)
  IN  IF \/ ~validate_username(username)
         \/ ~validate_password(password)
         \/ (email # "none" /\ ~validate_email(email))
         \/ UsersNamed(username) # {}
         \/ c \in DOMAIN users      \* insert on an existing primary key aborts
      THEN Fail("register_user", c, arg)
      ELSE /\ users' = Insert(users, c, [username |-> username,
                                         password_hash |-> hash_password(password, salt),
                                         password_salt |-> salt, is_active |-> TRUE])
           /\ last' = Call("register_user", c, arg, TRUE)
           /\ UNCHANGED <<now, sessions, players, npcs, inventory, skills, results, heap>>

login_user(c, username, password) ==
  LET arg == [username |-> username, password |-> password]
  IN  IF UsersNamed(username) = {}
      THEN Fail("login_user", c, arg)
      ELSE LET user == users[CHOOSE i \in UsersNamed(username) : TRUE]
           IN  IF ~user.is_active \/ ~verify_password(password, user.password_hash, user.password_salt)
               THEN Fail("login_user", c, arg)
               ELSE /\ sessions' = IF c \in DOMAIN sessions
                                   THEN update_activity(sessions, c, now)
                                   ELSE create_session(sessions, c, now)
                    /\ last' = Call("login_user", c, arg, TRUE)
                    /\ UNCHANGED <<now, users, players, npcs, inventory, skills, results, heap>>

LogoutKeepsOnline(ps, identity) == ps

\* logout_user, second step: mark the caller's player offline
LogoutPlayers(ps, identity) == set_online_status(ps, identity, FALSE)

logout_user(c) ==
  /\ sessions' = remove_session(sessions, c)
  /\ players' = LogoutPlayers(players, c)
  /\ last' = Call("logout_user", c, <<>>, TRUE)
  /\ UNCHANGED <<now, users, npcs, inventory, skills, results, heap>>

-----------------------------------------------------------------------------
(* ServerModule/src/reducers/player.rs                                     *)

join_game(c, starting_zone) ==
  LET arg == [starting_zone |-> starting_zone]
  IN  IF c \notin DOMAIN sessions \/ c \notin DOMAIN users
      THEN Fail("join_game", c, arg)
      ELSE /\ sessions' = update_activity(sessions, c, now)
           /\ players' = IF c \in DOMAIN players
                         THEN [set_online_status(players, c, TRUE) EXCEPT ![c].current_zone = starting_zone]
                         ELSE create_player(players, c, users[c].username, starting_zone)
           /\ last' = Call("join_game", c, arg, TRUE)
           /\ UNCHANGED <<now, users, npcs, inventory, skills, results, heap>>

leave_game(c) ==
  /\ players' = set_online_status(players, c, FALSE)
  /\ last' = Call("leave_game", c, <<>>, TRUE)
  /\ UNCHANGED <<now, users, sessions, npcs, inventory, skills, results, heap>>

validate_movement_inclusive(old_x, old_y, old_z, new_x, new_y, new_z, max_distance) ==
  LET distance == calculate_distance(old_x, old_y, old_z, new_x, new_y, new_z)
  IN  /\ ~FGe(distance, max_distance)
      /\ is_finite(new_x) /\ is_finite(new_y) /\ is_finite(new_z)

\* SharedModule/src/utils.rs validate_movement: TRUE for Ok(())
validate_movement(old_x, old_y, old_z, new_x, new_y, new_z, max_distance) ==
  LET distance == calculate_distance(old_x, old_y, old_z, new_x, new_y, new_z)
  IN  /\ ~FGt(distance, max_distance)
      /\ is_finite(new_x) /\ is_finite(new_y) /\ is_finite(new_z)

update_player_position(c, x, y, z, yaw) ==
  LET arg == [x |-> x, y |-> y, z |-> z, yaw |-> yaw]
  IN  IF c \notin DOMAIN players
      THEN Fail("update_player_position", c, arg)
      ELSE IF ~validate_movement(players[c].position_x, players[c].position_y, players[c].position_z,
                                 x, y, z, F(MAX_MOVEMENT_DISTANCE))
      THEN Fail("update_player_position", c, arg)
      ELSE /\ players' = update_position(players, c, x, y, z, yaw)
           /\ sessions' = update_activity(sessions, c, now)
           /\ last' = Call("update_player_position", c, arg, TRUE)
           /\ UNCHANGED <<now, users, npcs, inventory, skills, results, heap>>

change_zone(c, new_zone, spawn_x, spawn_y, spawn_z) ==
  LET arg == [new_zone |-> new_zone, x |-> spawn_x, y |-> spawn_y, z |-> spawn_z]
  IN  IF c \notin DOMAIN players
      THEN Fail("change_zone", c, arg)
      ELSE IF ~is_finite(spawn_x) \/ ~is_finite(spawn_y) \/ ~is_finite(spawn_z)
      THEN Fail("change_zone", c, arg)
      ELSE /\ players' = [players EXCEPT ![c].current_zone = new_zone, ![c].position_x = spawn_x,
                                         ![c].position_y = spawn_y, ![c].position_z = spawn_z]
           /\ sessions' = update_activity(sessions, c, now)
           /\ last' = Call("change_zone", c, arg, TRUE)
           /\ UNCHANGED <<now, users, npcs, inventory, skills, results, heap>>

\* update_player_stats; an Option argument is <<>> for None and <<v>> for
\* Some(v)
update_player_stats(c, level, experience, health, max_health) ==
  LET arg == [level |-> level, experience |-> experience, health |-> health, max_health |-> max_health]
  IN  IF c \notin DOMAIN players
      THEN Fail("update_player_stats", c, arg)
      ELSE LET p0 == players[c]
               p1 == IF level # <<>> THEN [p0 EXCEPT !.level = level[1]] ELSE p0
               p2 == IF experience # <<>> THEN [p1 EXCEPT !.experience = experience[1]] ELSE p1
               p3 == IF health # <<>> THEN [p2 EXCEPT !.health = FMin(health[1], p2.max_health)] ELSE p2
               p4 == IF max_health # <<>>
                     THEN (IF FGt(p3.health, max_health[1])
                           THEN [p3 EXCEPT !.max_health = max_health[1], !.health = max_health[1]]
                           ELSE [p3 EXCEPT !.max_health = max_health[1]])
                     ELSE p3
           IN  /\ players' = [players EXCEPT ![c] = p4]
               /\ sessions' = update_activity(sessions, c, now)
               /\ last' = Call("update_player_stats", c, arg, TRUE)
               /\ UNCHANGED <<now, users, npcs, inventory, skills, results, heap>>

-----------------------------------------------------------------------------
(* SharedModule/modules/player.rs and src/player.rs: the earlier copies of *)
(* update_player_position, which compute the distance inline               *)

\* max_distance_per_update
MaxDistancePerUpdate == 5000

\* distance_moved
distance_moved(player, x, y, z) ==
  LET s == FAdd(FAdd(FSqDiff(player.position_x, x), FSqDiff(player.position_y, y)),
                FSqDiff(player.position_z, z))
  IN  IF s.k = "num" THEN F(CeilSqrt(s.v)) ELSE s

\* SharedModule/modules/player.rs
update_player_position_shared(c, x, y, z, yaw) ==
  LET arg == [x |-> x, y |-> y, z |-> z, yaw |-> yaw]
  IN  IF c \notin DOMAIN players
      THEN Fail("update_player_position_shared", c, arg)
      ELSE IF FGt(distance_moved(players[c], x, y, z), F(MaxDistancePerUpdate))
      THEN Fail("update_player_position_shared", c, arg)
      ELSE /\ players' = [players EXCEPT ![c].position_x = x, ![c].position_y = y,
                                         ![c].position_z = z, ![c].rotation_yaw = yaw]
           /\ sessions' = IF c \in DOMAIN sessions
                          THEN [sessions EXCEPT ![c].last_activity = now]
                          ELSE sessions
           /\ last' = Call("update_player_position_shared", c, arg, TRUE)
           /\ UNCHANGED <<now, users, npcs, inventory, skills, results, heap>>

\* src/player.rs
update_player_position_legacy(c, x, y, z, yaw) ==
  LET arg == [x |-> x, y |-> y, z |-> z, yaw |-> yaw]
  IN  IF c \notin DOMAIN players
      THEN Fail("update_player_position_legacy", c, arg)
      ELSE IF FGt(distance_moved(players[c], x, y, z), F(MaxDistancePerUpdate))
      THEN Fail("update_player_position_legacy", c, arg)
      ELSE /\ players' = [players EXCEPT ![c].position_x = x, ![c].position_y = y,
                                         ![c].position_z = z, ![c].rotation_yaw = yaw]
           /\ sessions' = IF c \in DOMAIN sessions
                          THEN [sessions EXCEPT ![c].last_activity = now]
                          ELSE sessions
           /\ last' = Call("update_player_position_legacy", c, arg, TRUE)
           /\ UNCHANGED <<now, users, npcs, inventory, skills, results, heap>>

-----------------------------------------------------------------------------
(* ServerModule/src/reducers/session.rs and utils/session.rs               *)

heartbeat(c) ==
  /\ sessions' = update_activity(sessions, c, now)
  /\ players' = IF c \in DOMAIN players /\ players[c].is_online
                THEN set_online_status(players, c, TRUE)
                ELSE players
  /\ last' = Call("heartbeat", c, <<>>, TRUE)
  /\ UNCHANGED <<now, users, npcs, inventory, skills, results, heap>>

force_disconnect_user(c, target_username) ==
  LET arg == [target_username |-> target_username]
  IN  IF UsersNamed(target_username) = {}
      THEN Fail("force_disconnect_user", c, arg)
      ELSE LET target == CHOOSE i \in UsersNamed(target_username) : TRUE
           IN  /\ sessions' = remove_session(sessions, target)
               /\ players' = set_online_status(players, target, FALSE)
               /\ last' = Call("force_disconnect_user", c, arg, TRUE)
               /\ UNCHANGED <<now, users, npcs, inventory, skills, results, heap>>

\* handle_client_disconnected -> cleanup_client_state
handle_client_disconnected(c) ==
  /\ players' = IF c \in DOMAIN players /\ players[c].is_online
                THEN set_online_status(players, c, FALSE)
                ELSE players
  /\ sessions' = IF c \in DOMAIN sessions THEN remove_session(sessions, c) ELSE sessions
  /\ last' = Call("client_disconnected", c, <<>>, TRUE)
  /\ UNCHANGED <<now, users, npcs, inventory, skills, results, heap>>

RECURSIVE SetOffline(_, _)
\* the loop body of cleanup_inactive_sessions, player half
SetOffline(ps, ids) ==
  IF ids = {} THEN ps
  ELSE LET i == CHOOSE j \in ids : TRUE
       IN  SetOffline(set_online_status(ps, i, FALSE), ids \ {i})

RECURSIVE RemoveSessions(_, _)
\* the loop body of cleanup_inactive_sessions, session half
RemoveSessions(ss, ids) ==
  IF ids = {} THEN ss
  ELSE LET i == CHOOSE j \in ids : TRUE
       IN  RemoveSessions(remove_session(ss, i), ids \ {i})

cleanup_inactive_sessions ==
  LET cutoff_time == now - INACTIVITY_TIMEOUT_SECONDS
      inactive_sessions == get_inactive_sessions(sessions, cutoff_time)
  IN  /\ players' = SetOffline(players, inactive_sessions)
      /\ sessions' = RemoveSessions(sessions, inactive_sessions)
      /\ last' = Call("cleanup_inactive_sessions", NoOne, [cleaned |-> inactive_sessions], TRUE)
      /\ UNCHANGED <<now, users, npcs, inventory, skills, results, heap>>

\* src/src/lib.rs: the earlier copy of the reducer; it finds the player
\* itself instead of calling set_online_status
cleanup_inactive_sessions_legacy ==
  LET timeout_seconds == 300
      cutoff_time == now - timeout_seconds
      inactive_sessions == {i \in DOMAIN sessions : sessions[i].last_activity < cutoff_time}
  IN  /\ players' = [i \in DOMAIN players |->
                       IF i \in inactive_sessions
                       THEN [players[i] EXCEPT !.is_online = FALSE]
                       ELSE players[i]]
      /\ sessions' = [i \in DOMAIN sessions \ inactive_sessions |-> sessions[i]]
      /\ last' = Call("cleanup_inactive_sessions_legacy", NoOne, [cleaned |-> inactive_sessions], TRUE)
      /\ UNCHANGED <<now, users, npcs, inventory, skills, results, heap>>

\* the latest update_npc_ai call, when no other reducer has been called
\* since: the NPC as it was before that call and the nearby players it saw
LastTick ==
  IF last.op = "update_npc_ai" /\ last.ok
  THEN <<[npc_id |-> last.arg.npc_id, npc |-> last.pre.npcs[last.arg.npc_id],
          nearby |-> last.arg.nearby]>>
  ELSE IF last.op = "advance_time" THEN last.arg.tick
  ELSE <<>>

\* the host's clock: the timestamp of the next call is never earlier
AdvanceTime(dt, max) ==
  /\ now + dt <= max
  /\ now' = now + dt
  /\ last' = Call("advance_time", NoOne, [dt |-> dt, tick |-> LastTick], TRUE)
  /\ UNCHANGED <<users, sessions, players, npcs, inventory, skills, results, heap>>

-----------------------------------------------------------------------------
(* CustomServerModule/src/ai.rs: NPC behaviour.  The NPC columns name and  *)
(* zone_id, which no reducer reads, are left out.                          *)

NpcIds == {1}

\* AIState::to_string
to_string(state) ==
  CASE state = "Idle" -> "idle"
    [] state = "Patrolling" -> "patrolling"
    [] state = "Chasing" -> "chasing"
    [] state = "Attacking" -> "attacking"
    [] state = "Fleeing" -> "fleeing"
    [] state = "Dead" -> "dead"

\* a string that names no state other than Fleeing's is read as Idle
from_string_no_fleeing(str) ==
  CASE str = "idle" -> "Idle"
    [] str = "patrolling" -> "Patrolling"
    [] str = "chasing" -> "Chasing"
    [] str = "attacking" -> "Attacking"
    [] str = "dead" -> "Dead"
    [] OTHER -> "Idle"

\* AIState::from_string
from_string(str) ==
  CASE str = "idle" -> "Idle"
    [] str = "patrolling" -> "Patrolling"
    [] str = "chasing" -> "Chasing"
    [] str = "attacking" -> "Attacking"
    [] str = "fleeing" -> "Fleeing"
    [] str = "dead" -> "Dead"
    [] OTHER -> "Idle"

\* validate_world_position: TRUE for Ok(())
validate_world_position(x, y, z) ==
  /\ is_finite(x) /\ is_finite(y) /\ is_finite(z)
  /\ ~(FLt(x, F(WORLD_MIN)) \/ FGt(x, F(WORLD_MAX)))
  /\ ~(FLt(y, F(WORLD_MIN)) \/ FGt(y, F(WORLD_MAX)))
  /\ ~(FLt(z, F(WORLD_MIN)) \/ FGt(z, F(WORLD_MAX)))

\* every type gets the default stats
TypeStatsDefault(npc_type) == F(50)

\* the (health, max_health) match of spawn_npc
TypeStats(npc_type) ==
  CASE npc_type = "goblin" -> F(50)
    [] npc_type = "orc" -> F(100)
    [] npc_type = "dragon" -> F(1000)
    [] npc_type = "merchant" -> F(100)
    [] OTHER -> F(50)

\* generate_unique_id: an id no existing row has
FreshId(table, universe) == CHOOSE i \in universe \ DOMAIN table : \A j \in universe \ DOMAIN table : i <= j

spawn_npc(c, npc_type, x, y, z) ==
  LET arg == [npc_type |-> npc_type, x |-> x, y |-> y, z |-> z]
  IN  IF ~validate_world_position(x, y, z)
      THEN Fail("spawn_npc", c, arg)
      ELSE /\ NpcIds \ DOMAIN npcs # {}
           /\ npcs' = Insert(npcs, FreshId(npcs, NpcIds),
                             [npc_type |-> npc_type, position_x |-> x, position_y |-> y,
                              position_z |-> z, health |-> TypeStats(npc_type),
                              max_health |-> TypeStats(npc_type),
                              ai_state |-> to_string("Idle"), respawn_time |-> now])
           /\ last' = Call("spawn_npc", c, arg, TRUE)
           /\ UNCHANGED <<now, users, sessions, players, inventory, skills, results, heap>>

\* the players within the radius, whatever their online flag
get_nearby_players_any(x, y, z, radius) ==
  {i \in DOMAIN players :
     FLe(calculate_distance(x, y, z, players[i].position_x, players[i].position_y,
                            players[i].position_z), radius)}

\* get_nearby_players: the identities of the online players within radius
get_nearby_players(x, y, z, radius) ==
  {i \in DOMAIN players :
     /\ players[i].is_online
     /\ FLe(calculate_distance(x, y, z, players[i].position_x, players[i].position_y,
                               players[i].position_z), radius)}

is_aggressive_npc(npc_type) == npc_type \in {"goblin", "orc", "dragon"}

\* the health is never taken for low
LowHealthNever(npc) == FALSE

\* health < max_health * 0.2, health and max_health finite
LowHealth(npc) ==
  IF npc.health.k = "num" /\ npc.max_health.k = "num"
  THEN 5 * npc.health.v < npc.max_health.v
  ELSE npc.health.k = "inf" /\ npc.health.v < 0

\* the state machine of update_npc_ai (the match on current_state)
NextAIState(current_state, npc, players_nearby, timestamp) ==
  CASE current_state = "Idle" ->
         IF players_nearby
         THEN (IF npc.npc_type \in {"goblin", "orc"} THEN "Chasing"
               ELSE IF npc.npc_type = "merchant" THEN "Idle"
               ELSE "Patrolling")
         ELSE "Patrolling"
    [] current_state = "Patrolling" ->
         IF players_nearby /\ is_aggressive_npc(npc.npc_type) THEN "Chasing" ELSE "Patrolling"
    [] current_state \in {"Chasing", "Attacking"} ->
         IF ~players_nearby THEN "Idle"
         ELSE IF LowHealth(npc) THEN "Fleeing"
         ELSE "Attacking"
    [] current_state = "Fleeing" ->
         IF ~players_nearby THEN "Idle" ELSE "Fleeing"
    [] current_state = "Dead" ->
         IF timestamp >= npc.respawn_time + RespawnDuration THEN "Idle" ELSE "Dead"

\* a / b rounded to the nearest integer, b > 0
RoundDiv(a, b) == IF a >= 0 THEN (2 * a + b) \div (2 * b) ELSE 0 - ((2 * (0 - a) + b) \div (2 * b))

\* `as u64` of a coordinate times 1000: saturating, NaN gives 0
SeedPart(c) == IF c.k = "num" /\ c.v > 0 THEN c.v * (1000 \div PosScale) ELSE 0

CosTable ==
  <<
    500, 500, 500, 500, 500, 499, 499, 499, 498, 498, 498, 497, 496, 496, 495, 494, 494, 493, 492, 491,
    490, 489, 488, 487, 486, 484, 483, 482, 481, 479, 478, 476, 475, 473, 471, 470, 468, 466, 464, 462,
    461, 459, 457, 454, 452, 450, 448, 446, 443, 441, 439, 436, 434, 431, 429, 426, 424, 421, 418, 415,
    413, 410, 407, 404, 401, 398, 395, 392, 389, 386, 382, 379, 376, 373, 369, 366, 362, 359, 355, 352,
    348, 345, 341, 337, 334, 330, 326, 322, 319, 315, 311, 307, 303, 299, 295, 291, 287, 283, 279, 274,
    270, 266, 262, 257, 253, 249, 244, 240, 236, 231, 227, 222, 218, 213, 209, 204, 200, 195, 190, 186,
    181, 177, 172, 167, 162, 158, 153, 148, 143, 139, 134, 129, 124, 119, 114, 110, 105, 100, 95, 90,
    85, 80, 75, 70, 65, 60, 55, 50, 45, 40, 35, 30, 25, 20, 15, 10, 5, 0, -5, -10,
    -15, -20, -25, -30, -35, -40, -45, -50, -54, -59, -64, -69, -74, -79, -84, -89, -94, -99, -104, -109,
    -114, -118, -123, -128, -133, -138, -143, -147, -152, -157, -162, -166, -171, -176, -180, -185, -190, -194, -199, -204,
    -208, -213, -217, -222, -226, -231, -235, -239, -244, -248, -252, -257, -261, -265, -269, -274, -278, -282, -286, -290,
    -294, -298, -302, -306, -310, -314, -318, -322, -326, -329, -333, -337, -341, -344, -348, -351, -355, -358, -362, -365,
    -369, -372, -375, -379, -382, -385, -388, -391, -395, -398, -401, -404, -406, -409, -412, -415, -418, -421, -423, -426,
    -428, -431, -434, -436, -438, -441, -443, -445, -448, -450, -452, -454, -456, -458, -460, -462, -464, -466, -468, -469,
    -471, -473, -474, -476, -477, -479, -480, -482, -483, -484, -485, -487, -488, -489, -490, -491, -492, -493, -493, -494,
    -495, -496, -496, -497, -497, -498, -498, -499, -499, -499, -500, -500, -500, -500, -500, -500, -500, -500, -500, -499,
    -499, -499, -498, -498, -498, -497, -496, -496, -495, -495, -494, -493, -492, -491, -490, -489, -488, -487, -486, -485,
    -483, -482, -481, -479, -478, -476, -475, -473, -472, -470, -468, -466, -465, -463, -461, -459, -457, -455, -453, -451,
    -448, -446, -444, -442, -439, -437, -434, -432, -429, -427, -424, -421, -419, -416, -413, -410, -407, -404, -402, -399,
    -395, -392, -389, -386, -383, -380, -376, -373, -370, -366, -363, -360, -356, -352, -349, -345, -342, -338, -334, -331,
    -327, -323, -319, -315, -311, -308, -304, -300, -296, -291, -287, -283, -279, -275, -271, -267, -262, -258, -254, -249,
    -245, -241, -236, -232, -228, -223, -219, -214, -210, -205, -200, -196, -191, -187, -182, -177, -173, -168, -163, -158,
    -154, -149, -144, -139, -135, -130, -125, -120, -115, -110, -105, -101, -96, -91, -86, -81, -76, -71, -66, -61,
    -56, -51, -46, -41, -36, -31, -26, -21, -16, -11, -6, -1, 4, 9, 14, 19, 24, 29, 34, 39,
    44, 49, 54, 59, 64, 69, 74, 78, 83, 88, 93, 98, 103, 108, 113, 118, 123, 127, 132, 137,
    142, 147, 151, 156, 161, 166, 170, 175, 180, 184, 189, 194, 198, 203, 207, 212, 216, 221, 225, 230,
    234, 239, 243, 247, 252, 256, 260, 265, 269, 273, 277, 281, 285, 290, 294, 298, 302, 306, 310, 313,
    317, 321, 325, 329, 333, 336, 340, 344, 347, 351, 354, 358, 361, 365, 368, 372, 375, 378, 381, 385,
    388, 391, 394, 397, 400, 403, 406, 409, 412, 415, 417, 420, 423, 425, 428, 431, 433, 436, 438, 440,
    443, 445, 447, 450, 452, 454, 456, 458, 460, 462, 464, 466, 467, 469, 471, 473, 474, 476, 477, 479,
    480, 481, 483, 484, 485, 486, 488, 489, 490, 491, 492, 493, 493, 494, 495, 496, 496, 497, 497, 498,
    498, 499, 499, 499, 500, 500, 500, 500
  >>

SinTable ==
  <<
    0, 5, 10, 15, 20, 25, 30, 35, 40, 45, 50, 55, 60, 65, 70, 75, 80, 85, 90, 94,
    99, 104, 109, 114, 119, 124, 129, 133, 138, 143, 148, 153, 157, 162, 167, 171, 176, 181, 185, 190,
    195, 199, 204, 208, 213, 217, 222, 226, 231, 235, 240, 244, 248, 253, 257, 261, 266, 270, 274, 278,
    282, 286, 291, 295, 299, 303, 307, 310, 314, 318, 322, 326, 330, 333, 337, 341, 344, 348, 352, 355,
    359, 362, 366, 369, 372, 376, 379, 382, 385, 389, 392, 395, 398, 401, 404, 407, 410, 412, 415, 418,
    421, 423, 426, 429, 431, 434, 436, 439, 441, 443, 446, 448, 450, 452, 454, 456, 458, 460, 462, 464,
    466, 468, 470, 471, 473, 474, 476, 478, 479, 480, 482, 483, 484, 486, 487, 488, 489, 490, 491, 492,
    493, 494, 494, 495, 496, 496, 497, 497, 498, 498, 499, 499, 499, 500, 500, 500, 500, 500, 500, 500,
    500, 500, 499, 499, 499, 498, 498, 498, 497, 496, 496, 495, 494, 494, 493, 492, 491, 490, 489, 488,
    487, 486, 485, 483, 482, 481, 479, 478, 476, 475, 473, 472, 470, 468, 466, 464, 463, 461, 459, 457,
    455, 453, 450, 448, 446, 444, 441, 439, 437, 434, 432, 429, 426, 424, 421, 418, 416, 413, 410, 407,
    404, 401, 398, 395, 392, 389, 386, 383, 379, 376, 373, 370, 366, 363, 359, 356, 352, 349, 345, 341,
    338, 334, 330, 327, 323, 319, 315, 311, 307, 303, 299, 295, 291, 287, 283, 279, 275, 270, 266, 262,
    258, 253, 249, 245, 240, 236, 232, 227, 223, 218, 214, 209, 205, 200, 195, 191, 186, 182, 177, 172,
    167, 163, 158, 153, 149, 144, 139, 134, 129, 124, 120, 115, 110, 105, 100, 95, 90, 85, 80, 76,
    71, 66, 61, 56, 51, 46, 41, 36, 31, 26, 21, 16, 11, 6, 1, -4, -9, -14, -19, -24,
    -29, -34, -39, -44, -49, -54, -59, -64, -69, -74, -79, -84, -89, -94, -99, -103, -108, -113, -118, -123,
    -128, -133, -137, -142, -147, -152, -157, -161, -166, -171, -175, -180, -185, -189, -194, -199, -203, -208, -212, -217,
    -221, -226, -230, -235, -239, -243, -248, -252, -256, -261, -265, -269, -273, -278, -282, -286, -290, -294, -298, -302,
    -306, -310, -314, -318, -321, -325, -329, -333, -337, -340, -344, -347, -351, -355, -358, -362, -365, -368, -372, -375,
    -378, -382, -385, -388, -391, -394, -397, -400, -403, -406, -409, -412, -415, -418, -420, -423, -426, -428, -431, -433,
    -436, -438, -441, -443, -445, -447, -450, -452, -454, -456, -458, -460, -462, -464, -466, -468, -469, -471, -473, -474,
    -476, -477, -479, -480, -482, -483, -484, -485, -487, -488, -489, -490, -491, -492, -493, -493, -494, -495, -496, -496,
    -497, -497, -498, -498, -499, -499, -499, -500, -500, -500, -500, -500, -500, -500, -500, -500, -499, -499, -499, -498,
    -498, -498, -497, -497, -496, -495, -495, -494, -493, -492, -491, -490, -489, -488, -487, -486, -485, -484, -482, -481,
    -479, -478, -477, -475, -473, -472, -470, -468, -467, -465, -463, -461, -459, -457, -455, -453, -451, -449, -446, -444,
    -442, -439, -437, -435, -432, -429, -427, -424, -422, -419, -416, -413, -411, -408, -405, -402, -399, -396, -393, -390,
    -386, -383, -380, -377, -373, -370, -367, -363, -360, -356, -353, -349, -346, -342, -338, -335, -331, -327, -323, -319,
    -316, -312, -308, -304, -300, -296, -292, -288, -284, -280, -275, -271, -267, -263, -258, -254, -250, -245, -241, -237,
    -232, -228, -223, -219, -214, -210, -205, -201, -196, -192, -187, -182, -178, -173, -168, -164, -159, -154, -149, -145,
    -140, -135, -130, -125, -120, -116, -111, -106, -101, -96, -91, -86, -81, -76, -71, -66, -61, -56, -52, -47,
    -42, -37, -32, -27, -22, -17, -12, -7
  >>

\* get_patrol_position: a point PatrolDistance away, at the angle
\* (seed % 628) / 100 radians
get_patrol_position(current_x, current_y) ==
  LET seed == SeedPart(current_x) + SeedPart(current_y)
      a == (seed % 628) + 1
  IN  <<FAdd(current_x, F(CosTable[a])), FAdd(current_y, F(SinTable[a]))>>

move_towards_target(current_x, current_y, target_x, target_y, speed) ==
  IF ~(is_finite(current_x) /\ is_finite(current_y) /\ is_finite(target_x) /\ is_finite(target_y))
  THEN <<current_x, current_y>>
  ELSE LET dx == target_x.v - current_x.v
           dy == target_y.v - current_y.v
           distance == RoundSqrt(dx * dx + dy * dy)
       IN  IF distance > 0
           THEN IF speed >= distance
                THEN <<F(current_x.v + dx), F(current_y.v + dy)>>
                ELSE <<F(current_x.v + RoundDiv(dx * speed, distance)),
                       F(current_y.v + RoundDiv(dy * speed, distance))>>
           ELSE <<current_x, current_y>>

move_away_from_target(current_x, current_y, threat_x, threat_y, speed) ==
  IF ~(is_finite(current_x) /\ is_finite(current_y) /\ is_finite(threat_x) /\ is_finite(threat_y))
  THEN <<current_x, current_y>>
  ELSE LET dx == current_x.v - threat_x.v
           dy == current_y.v - threat_y.v
           distance == RoundSqrt(dx * dx + dy * dy)
       IN  IF distance > 0
           THEN <<F(current_x.v + RoundDiv(dx * speed, distance)),
                  F(current_y.v + RoundDiv(dy * speed, distance))>>
           ELSE <<F(current_x.v + speed), current_y>>

\* every state change is followed by a move to a patrol position
StateActionRoaming(npc, first) ==
  LET pos == get_patrol_position(npc.position_x, npc.position_y)
  IN  [npc EXCEPT !.position_x = pos[1], !.position_y = pos[2]]

\* the state-specific action after a state change; first is
\* nearby_players.first(), NoOne when the list is empty
StateAction(npc, first) ==
  LET state == from_string(npc.ai_state)
      pos == CASE state = "Patrolling" -> get_patrol_position(npc.position_x, npc.position_y)
               [] state \in {"Chasing", "Attacking"} /\ first # NoOne ->
                    move_towards_target(npc.position_x, npc.position_y,
                                        players[first].position_x, players[first].position_y, ChaseSpeed)
               [] state = "Fleeing" /\ first # NoOne ->
                    move_away_from_target(npc.position_x, npc.position_y,
                                          players[first].position_x, players[first].position_y, FleeSpeed)
               [] OTHER -> <<npc.position_x, npc.position_y>>
  IN  [npc EXCEPT !.position_x = pos[1], !.position_y = pos[2]]

\* the update and the movement are done on every tick
state_changed_always(new_state, npc) == TRUE

\* new_state.to_string() != npc.ai_state
state_changed(new_state, npc) == to_string(new_state) # npc.ai_state

\* what a tick records about itself: the nearby players it saw, and the
\* tick of this NPC that came directly before it, if any
TickRecord(npc_id, nearby_players) ==
  [npc_id |-> npc_id, nearby |-> nearby_players,
   prev |-> IF LastTick # <<>> /\ LastTick[1].npc_id = npc_id THEN LastTick ELSE <<>>]

\* update_npc_ai.  The players table is iterated in an order the host
\* chooses, so nearby_players.first() is any of the nearby players.
\* nearby_players and new_state are each computed once.
update_npc_ai(npc_id) ==
  IF npc_id \notin DOMAIN npcs
  THEN Fail("update_npc_ai", NoOne, [npc_id |-> npc_id])
  ELSE \E nearby_players \in {get_nearby_players(npcs[npc_id].position_x, npcs[npc_id].position_y,
                                                 npcs[npc_id].position_z, F(PerceptionRadius))} :
       \E new_state \in {NextAIState(from_string(npcs[npc_id].ai_state), npcs[npc_id],
                                     nearby_players # {}, now)} :
       LET npc == npcs[npc_id]
           arg == TickRecord(npc_id, nearby_players)
       IN  IF FLe(npc.health, F(0))
           THEN /\ npcs' = [npcs EXCEPT ![npc_id].ai_state = to_string("Dead")]
                /\ last' = Call("update_npc_ai", NoOne, arg, TRUE)
                /\ UNCHANGED <<now, users, sessions, players, inventory, skills, results, heap>>
           ELSE LET current_state == from_string(npc.ai_state)
                    healed == IF current_state = "Dead" /\ new_state = "Idle"
                              THEN [npc EXCEPT !.health = npc.max_health]
                              ELSE npc
                IN  /\ IF state_changed(new_state, npc)
                       THEN \E first \in (IF nearby_players = {} THEN {NoOne} ELSE nearby_players) :
                              npcs' = [npcs EXCEPT ![npc_id] =
                                         StateAction([healed EXCEPT !.ai_state = to_string(new_state)], first)]
                       ELSE npcs' = npcs
                    /\ last' = Call("update_npc_ai", NoOne, arg, TRUE)
                    /\ UNCHANGED <<now, users, sessions, players, inventory, skills, results, heap>>

AttackResultNoTimer(npc, damage, timestamp) ==
  LET health == FMax(FSub(npc.health, damage), F(0))
  IN  IF FLe(health, F(0))
      THEN [npc EXCEPT !.health = health, !.ai_state = to_string("Dead")]
      ELSE IF npc.ai_state = to_string("Idle")
      THEN [npc EXCEPT !.health = health, !.ai_state = to_string("Chasing")]
      ELSE [npc EXCEPT !.health = health]

AttackResultNoProvoke(npc, damage, timestamp) ==
  LET health == FMax(FSub(npc.health, damage), F(0))
  IN  IF FLe(health, F(0))
      THEN [npc EXCEPT !.health = health, !.ai_state = to_string("Dead"), !.respawn_time = timestamp]
      ELSE [npc EXCEPT !.health = health]

\* the health is written back without the state
AttackResultKeepsState(npc, damage, timestamp) ==
  [npc EXCEPT !.health = FMax(FSub(npc.health, damage), F(0))]

\* attack_npc from "Apply damage" on: the NPC row that is written back
AttackResult(npc, damage, timestamp) ==
  LET health == FMax(FSub(npc.health, damage), F(0))
  IN  IF FLe(health, F(0))
      THEN [npc EXCEPT !.health = health, !.ai_state = to_string("Dead"), !.respawn_time = timestamp]
      ELSE IF npc.ai_state = to_string("Idle")
      THEN [npc EXCEPT !.health = health, !.ai_state = to_string("Chasing")]
      ELSE [npc EXCEPT !.health = health]

\* the attack range itself counts as too far
TooFarInclusive(distance) == FGe(distance, F(AttackRange))

\* distance > 5.0
TooFar(distance) == FGt(distance, F(AttackRange))

attack_npc(c, npc_id, damage) ==
  LET arg == [npc_id |-> npc_id, damage |-> damage]
  IN  IF c \notin DOMAIN players
      THEN Fail("attack_npc", c, arg)
      ELSE IF ~players[c].is_online
      THEN Fail("attack_npc", c, arg)
      ELSE IF npc_id \notin DOMAIN npcs
      THEN Fail("attack_npc", c, arg)
      ELSE IF TooFar(calculate_distance(players[c].position_x, players[c].position_y, players[c].position_z,
                                        npcs[npc_id].position_x, npcs[npc_id].position_y,
                                        npcs[npc_id].position_z))
      THEN Fail("attack_npc", c, arg)
      ELSE /\ npcs' = [npcs EXCEPT ![npc_id] = AttackResult(npcs[npc_id], damage, now)]
           /\ last' = Call("attack_npc", c, arg, TRUE)
           /\ UNCHANGED <<now, users, sessions, players, inventory, skills, results, heap>>

-----------------------------------------------------------------------------
(* CustomServerModule/src/mechanics.rs: inventory.  The constant column    *)
(* item_type of player_inventory is left out.                              *)

\* create_default_items: the game_items table.  heal is the value that
\* use_item parses out of properties_json, -1 when there is no heal_amount
GameItems ==
  [item_id \in {"sword_iron", "potion_health", "armor_leather", "ore_iron", "food_bread"} |->
     CASE item_id = "sword_iron" -> [item_type |-> "weapon", max_stack_size |-> 1, heal |-> -1]
       [] item_id = "potion_health" -> [item_type |-> "consumable", max_stack_size |-> 10, heal |-> 50]
       [] item_id = "armor_leather" -> [item_type |-> "armor", max_stack_size |-> 1, heal |-> -1]
       [] item_id = "ore_iron" -> [item_type |-> "material", max_stack_size |-> 50, heal |-> -1]
       [] item_id = "food_bread" -> [item_type |-> "consumable", max_stack_size |-> 20, heal |-> 20]]

\* find_inventory_item: the rows that match; the one returned is the first
\* of them in the order in which the host iterates the table
find_inventory_item(inv, player_identity, item_id) ==
  {i \in DOMAIN inv : inv[i].player_identity = player_identity /\ inv[i].item_id = item_id}

\* the update of one row with a new quantity
update_quantity_lost(inv, id, quantity) == inv

update_quantity(inv, id, quantity) == [inv EXCEPT ![id].quantity = quantity]

\* the slot indices of the other owners
used_slots_of_others(inv, player_identity) ==
  {inv[i].slot_index : i \in {j \in DOMAIN inv : inv[j].player_identity # player_identity}}

\* the slot indices an owner uses
used_slots(inv, player_identity) ==
  {inv[i].slot_index : i \in {j \in DOMAIN inv : inv[j].player_identity = player_identity}}

RECURSIVE NextSlot(_, _)
\* the while loop of create_new_inventory_slot; -1 for "Inventory is full"
NextSlot(used, next_slot) ==
  IF next_slot \notin used THEN next_slot
  ELSE IF next_slot + 1 > MaxSlotIndex THEN -1
  ELSE NextSlot(used, next_slot + 1)

\* generate_unique_id for an inventory row
FreshInventoryId(inv) ==
  CHOOSE i \in 1..(Cardinality(DOMAIN inv) + 1) :
    i \notin DOMAIN inv /\ \A j \in 1..(i - 1) : j \in DOMAIN inv

\* the search for a free slot starts at the number of slots in use
create_new_inventory_slot_after_count(inv, player_identity, item_id, quantity) ==
  LET next_slot == NextSlot(used_slots(inv, player_identity),
                            Cardinality(used_slots(inv, player_identity)))
  IN  IF next_slot = -1
      THEN [ok |-> FALSE, inv |-> inv]
      ELSE [ok |-> TRUE,
            inv |-> Insert(inv, FreshInventoryId(inv),
                           [player_identity |-> player_identity, item_id |-> item_id,
                            quantity |-> quantity, slot_index |-> next_slot])]

\* create_new_inventory_slot: [ok, inv]
create_new_inventory_slot(inv, player_identity, item_id, quantity) ==
  LET next_slot == NextSlot(used_slots(inv, player_identity), 0)
  IN  IF next_slot = -1
      THEN [ok |-> FALSE, inv |-> inv]
      ELSE [ok |-> TRUE,
            inv |-> Insert(inv, FreshInventoryId(inv),
                           [player_identity |-> player_identity, item_id |-> item_id,
                            quantity |-> quantity, slot_index |-> next_slot])]

\* u32 quantities.  A u32 of 2^31 or more is written as the negative integer
\* with the same 32-bit pattern: 2^32 - k as -k.
\* a <= b on u32
U32Le(a, b) == IF (a < 0) = (b < 0) THEN a <= b ELSE b < 0

\* a + b is more than u32::MAX
U32Overflows(a, b) ==
  IF a < 0 /\ b < 0 THEN TRUE
  ELSE IF a < 0 \/ b < 0 THEN a + b >= 0
  ELSE FALSE

\* a + b on u32 in a build without overflow checks: the sum modulo 2^32
wrapping_add(a, b) == a + b

\* whether "updated_item.quantity + quantity" panics: it does not when the
\* sum fits; when it does not fit, a build with overflow checks panics and
\* the host aborts the call, a build without them wraps
AddPanics(inv, quantity, existing) ==
  IF existing # 0 /\ U32Overflows(inv[existing].quantity, quantity) THEN {TRUE, FALSE} ELSE {FALSE}

\* the body of add_item_to_inventory after the item lookup: [ok, inv].
\* existing is the row find_inventory_item returned, 0 for None
AddToInventory(inv, player_identity, item_id, quantity, existing) ==
  LET item == GameItems[item_id]
  IN  IF existing # 0
      THEN LET new_quantity == wrapping_add(inv[existing].quantity, quantity)
           IN  IF U32Le(new_quantity, item.max_stack_size)
               THEN [ok |-> TRUE, inv |-> update_quantity(inv, existing, new_quantity)]
               ELSE LET remaining == new_quantity - item.max_stack_size
                        updated == update_quantity(inv, existing, item.max_stack_size)
                    IN  IF remaining # 0
                        THEN create_new_inventory_slot(updated, player_identity, item_id, remaining)
                        ELSE [ok |-> TRUE, inv |-> updated]
      ELSE create_new_inventory_slot(inv, player_identity, item_id, quantity)

\* the rows find_inventory_item can return, {0} when there is none
Found(inv, player_identity, item_id) ==
  IF find_inventory_item(inv, player_identity, item_id) = {}
  THEN {0}
  ELSE find_inventory_item(inv, player_identity, item_id)

add_item_to_inventory(player_identity, item_id, quantity) ==
  LET arg == [owner |-> player_identity, item_id |-> item_id, quantity |-> quantity, found |-> 0]
  IN  IF item_id \notin DOMAIN GameItems
      THEN Fail("add_item_to_inventory", NoOne, arg)
      ELSE \E existing \in Found(inventory, player_identity, item_id) :
           \E panics \in AddPanics(inventory, quantity, existing) :
             LET r == AddToInventory(inventory, player_identity, item_id, quantity, existing)
             IN  IF panics
                 THEN Fail("add_item_to_inventory", NoOne, [arg EXCEPT !.found = existing])
                 ELSE IF ~r.ok
                 THEN FailInventory("add_item_to_inventory", NoOne, [arg EXCEPT !.found = existing], r.inv)
                 ELSE /\ inventory' = r.inv
                      /\ last' = Call("add_item_to_inventory", NoOne, [arg EXCEPT !.found = existing], TRUE)
                      /\ UNCHANGED <<now, users, sessions, players, npcs, skills, results, heap>>

\* the players whose username is target_username
PlayersNamed(target_username) == {i \in DOMAIN players : players[i].username = target_username}

give_item_to_player(c, target_username, item_id, quantity) ==
  LET arg == [owner |-> target_username, item_id |-> item_id, quantity |-> quantity, found |-> 0]
  IN  IF item_id \notin DOMAIN GameItems \/ PlayersNamed(target_username) = {}
      THEN Fail("give_item_to_player", c, arg)
      ELSE \E target \in PlayersNamed(target_username) :
           \E existing \in Found(inventory, target, item_id) :
           \E panics \in AddPanics(inventory, quantity, existing) :
             LET r == AddToInventory(inventory, target, item_id, quantity, existing)
                 done == [arg EXCEPT !.owner = target, !.found = existing]
             IN  IF panics
                 THEN Fail("give_item_to_player", c, done)
                 ELSE IF ~r.ok
                 THEN FailInventory("give_item_to_player", c, done, r.inv)
                 ELSE /\ inventory' = r.inv
                      /\ last' = Call("give_item_to_player", c, done, TRUE)
                      /\ UNCHANGED <<now, users, sessions, players, npcs, skills, results, heap>>

\* a slot whose whole quantity is removed is kept with quantity 0
RemoveFromInventoryKeepsSlot(inv, quantity, found) ==
  IF found = 0 THEN [ok |-> FALSE, inv |-> inv]
  ELSE IF inv[found].quantity < quantity THEN [ok |-> FALSE, inv |-> inv]
  ELSE [ok |-> TRUE, inv |-> update_quantity(inv, found, inv[found].quantity - quantity)]

\* the body of remove_item_from_inventory after the player lookup: [ok, inv].
\* found is the row find_inventory_item returned, 0 for None
RemoveFromInventory(inv, quantity, found) ==
  IF found = 0 THEN [ok |-> FALSE, inv |-> inv]
  ELSE IF inv[found].quantity < quantity THEN [ok |-> FALSE, inv |-> inv]
  ELSE IF inv[found].quantity = quantity THEN [ok |-> TRUE, inv |-> Delete(inv, found)]
  ELSE [ok |-> TRUE, inv |-> update_quantity(inv, found, inv[found].quantity - quantity)]

remove_item_from_inventory(c, item_id, quantity) ==
  LET arg == [owner |-> c, item_id |-> item_id, quantity |-> quantity, found |-> 0]
  IN  IF c \notin DOMAIN players
      THEN Fail("remove_item_from_inventory", c, arg)
      ELSE \E found \in Found(inventory, c, item_id) :
             LET r == RemoveFromInventory(inventory, quantity, found)
             IN  IF ~r.ok
                 THEN Fail("remove_item_from_inventory", c, [arg EXCEPT !.found = found])
                 ELSE /\ inventory' = r.inv
                      /\ last' = Call("remove_item_from_inventory", c, [arg EXCEPT !.found = found], TRUE)
                      /\ UNCHANGED <<now, users, sessions, players, npcs, skills, results, heap>>

\* the heal is added without a limit
HealedUnclamped(player, item) ==
  IF item.heal >= 0
  THEN [player EXCEPT !.health = FAdd(player.health, F(item.heal))]
  ELSE player

\* the heal applied by use_item to a consumable
Healed(player, item) ==
  IF item.heal >= 0
  THEN [player EXCEPT !.health = FMin(FAdd(player.health, F(item.heal)), player.max_health)]
  ELSE player

use_item(c, item_id) ==
  LET arg == [owner |-> c, item_id |-> item_id, quantity |-> 1, found |-> 0]
  IN  IF c \notin DOMAIN players \/ item_id \notin DOMAIN GameItems
      THEN Fail("use_item", c, arg)
      ELSE IF find_inventory_item(inventory, c, item_id) = {}
      THEN Fail("use_item", c, arg)
      ELSE IF GameItems[item_id].item_type # "consumable"
      THEN Fail("use_item", c, arg)
      ELSE \E found \in Found(inventory, c, item_id) :
             LET r == RemoveFromInventory(inventory, 1, found)
             IN  IF ~r.ok
                 THEN Fail("use_item", c, [arg EXCEPT !.found = found])
                 ELSE /\ inventory' = r.inv
                      /\ players' = [players EXCEPT ![c] = Healed(players[c], GameItems[item_id])]
                      /\ last' = Call("use_item", c, [arg EXCEPT !.found = found], TRUE)
                      /\ UNCHANGED <<now, users, sessions, npcs, skills, results, heap>>

-----------------------------------------------------------------------------
(* CustomServerModule/src/mechanics.rs: skills                             *)

RECURSIVE Pow(_, _)
Pow(b, n) == IF n = 0 THEN 1 ELSE b * Pow(b, n - 1)

\* ((level as f64 * 100.0) * 1.2^level) as u64, for the levels whose
\* product stays below 2^31
calculate_required_experience(level) == (level * 100 * Pow(12, level)) \div Pow(10, level)

\* find_player_skill: the rows that match
find_player_skill(sk, player_identity, skill_name) ==
  {i \in DOMAIN sk : sk[i].player_identity = player_identity /\ sk[i].skill_name = skill_name}

\* a level-up that keeps the whole experience
level_up_keep_experience(skill, required_exp) ==
  IF skill.experience >= required_exp
  THEN [skill EXCEPT !.skill_level = skill.skill_level + 1]
  ELSE skill

\* the level-up check of gain_skill_experience
level_up(skill, required_exp) ==
  IF skill.experience >= required_exp
  THEN [skill EXCEPT !.skill_level = skill.skill_level + 1,
                     !.experience = skill.experience - required_exp]
  ELSE skill

\* generate_unique_id for a skill row
FreshSkillId(sk) ==
  CHOOSE i \in 1..(Cardinality(DOMAIN sk) + 1) :
    i \notin DOMAIN sk /\ \A j \in 1..(i - 1) : j \in DOMAIN sk

gain_skill_experience(c, skill_name, experience_gained) ==
  LET arg == [skill_name |-> skill_name, experience_gained |-> experience_gained]
  IN  IF c \notin DOMAIN players
      THEN Fail("gain_skill_experience", c, arg)
      ELSE /\ IF find_player_skill(skills, c, skill_name) # {}
              THEN \E id \in find_player_skill(skills, c, skill_name) :
                     LET gained == [skills[id] EXCEPT !.experience = skills[id].experience + experience_gained]
                         required_exp == calculate_required_experience(gained.skill_level)
                     IN  skills' = [skills EXCEPT ![id] = [level_up(gained, required_exp)
                                                            EXCEPT !.last_updated = now]]
              ELSE skills' = Insert(skills, FreshSkillId(skills),
                                    [player_identity |-> c, skill_name |-> skill_name, skill_level |-> 1,
                                     experience |-> experience_gained, last_updated |-> now])
           /\ last' = Call("gain_skill_experience", c, arg, TRUE)
           /\ UNCHANGED <<now, users, sessions, players, npcs, inventory, results, heap>>

-----------------------------------------------------------------------------
(* Foreign-function bridge (src/bridge, ClientModule/src/ffi.rs).  "results" *)
(* holds the FFIResult records the foreign caller keeps, "heap" the         *)
(* allocations handed over with them and how often each was released.      *)

NullPtr == "null"

\* Box::into_raw of an empty boxed slice: a non-null pointer with no allocation
Dangling == "dangling"

MaxDataSize == 2

ResultRecords == {"r1", "r2"}

BridgeData == {<<>>} \cup {<<n>> : n \in 0..MaxDataSize}

ClientData == {<<>>, <<"12345">>}

\* the allocator hands out a fresh address on every call
Addresses == <<"p1", "p2">>

into_raw(kind) == Addresses[Cardinality(DOMAIN heap) + 1]

Allocated(kind) == Insert(heap, into_raw(kind), [kind |-> kind, releases |-> 0])

from_raw(h, ptr) == [h EXCEPT ![ptr].releases = @ + 1]

\* the released pointer is left in the record
NotNulled(ptr) == ptr

Nulled(ptr) == NullPtr

FreeOps == {"spacetimedb_free_result", "ClientModule_spacetimedb_free_result"}

FfiCall(op, result) ==
  Call(op, NoOne, [result |-> result, results |-> results, heap |-> heap,
                   again |-> last.op \in FreeOps /\ last.arg.result = result], TRUE)

FfiStep(op, result, results2, heap2) ==
  /\ results' = results2
  /\ heap' = heap2
  /\ last' = FfiCall(op, result)
  /\ UNCHANGED <<now, users, sessions, players, npcs, inventory, skills>>

FFIResult_success(result, data) ==
  /\ result \notin DOMAIN results
  /\ IF data # <<>>
       THEN IF data[1] > 0
              THEN FfiStep("FFIResult_success", result,
                           Insert(results, result,
                                  [origin |-> "bridge", success |-> TRUE, error_message |-> NullPtr,
                                   data |-> into_raw("slice"), data_size |-> data[1]]),
                           Allocated("slice"))
              ELSE FfiStep("FFIResult_success", result,
                           Insert(results, result,
                                  [origin |-> "bridge", success |-> TRUE, error_message |-> NullPtr,
                                   data |-> Dangling, data_size |-> 0]),
                           heap)
       ELSE FfiStep("FFIResult_success", result,
                    Insert(results, result,
                           [origin |-> "bridge", success |-> TRUE, error_message |-> NullPtr,
                            data |-> NullPtr, data_size |-> 0]),
                    heap)

FFIResult_error(result) ==
  /\ result \notin DOMAIN results
  /\ FfiStep("FFIResult_error", result,
             Insert(results, result,
                    [origin |-> "bridge", success |-> FALSE, error_message |-> into_raw("cstring"),
                     data |-> NullPtr, data_size |-> 0]),
             Allocated("cstring"))

ClientModule_FFIResult_success(result, data) ==
  /\ result \notin DOMAIN results
  /\ IF data # <<>>
       THEN FfiStep("ClientModule_FFIResult_success", result,
                    Insert(results, result,
                           [origin |-> "client", success |-> TRUE, error_message |-> NullPtr,
                            data |-> into_raw("cstring")]),
                    Allocated("cstring"))
       ELSE FfiStep("ClientModule_FFIResult_success", result,
                    Insert(results, result,
                           [origin |-> "client", success |-> TRUE, error_message |-> NullPtr,
                            data |-> NullPtr]),
                    heap)

ClientModule_FFIResult_error(result) ==
  /\ result \notin DOMAIN results
  /\ FfiStep("ClientModule_FFIResult_error", result,
             Insert(results, result,
                    [origin |-> "client", success |-> FALSE, error_message |-> into_raw("cstring"),
                     data |-> NullPtr]),
             Allocated("cstring"))

spacetimedb_free_result(result) ==
  IF result = NullPtr
    THEN FfiStep("spacetimedb_free_result", result, results, heap)
    ELSE
      /\ result \in DOMAIN results
      /\ results[result].origin = "bridge"
      /\ LET result_ref == results[result]
             freeMessage == result_ref.error_message # NullPtr
             heap1 == IF freeMessage THEN from_raw(heap, result_ref.error_message) ELSE heap
             ref1 == IF freeMessage
                       THEN [result_ref EXCEPT !.error_message = Nulled(@)]
                       ELSE result_ref
             freeData == ref1.data # NullPtr /\ ref1.data_size > 0
             heap2 == IF freeData THEN from_raw(heap1, ref1.data) ELSE heap1
             ref2 == IF freeData
                       THEN [ref1 EXCEPT !.data = Nulled(@), !.data_size = 0]
                       ELSE ref1
         IN FfiStep("spacetimedb_free_result", result,
                    [results EXCEPT ![result] = ref2], heap2)

ClientModule_spacetimedb_free_result(result) ==
  IF result = NullPtr
    THEN FfiStep("ClientModule_spacetimedb_free_result", result, results, heap)
    ELSE
      /\ result \in DOMAIN results
      /\ results[result].origin = "client"
      /\ LET result_ref == results[result]
             freeMessage == result_ref.error_message # NullPtr
             heap1 == IF freeMessage THEN from_raw(heap, result_ref.error_message) ELSE heap
             ref1 == IF freeMessage
                       THEN [result_ref EXCEPT !.error_message = Nulled(@)]
                       ELSE result_ref
             freeData == ref1.data # NullPtr
             heap2 == IF freeData THEN from_raw(heap1, ref1.data) ELSE heap1
             ref2 == IF freeData THEN [ref1 EXCEPT !.data = Nulled(@)] ELSE ref1
         IN FfiStep("ClientModule_spacetimedb_free_result", result,
                    [results EXCEPT ![result] = ref2], heap2)

-----------------------------------------------------------------------------
(* Session lifecycle specification                                         *)

SessionTimeSteps == {300, 301}

\* <<username, password, email>> arguments of register_user
RegisterInputs ==
  {<<"alice", "password1", "none">>, <<"bob", "password1", "a@b.c">>, <<"al", "password1", "none">>,
   <<"alice", "short", "none">>, <<"bob", "password1", "nodomain">>}

\* <<username, password>> arguments of login_user
LoginInputs ==
  {<<"alice", "password1">>, <<"bob", "password1">>, <<"alice", "wrongpass">>, <<"al", "password1">>}

InitLast == [op |-> "init", who |-> NoOne, arg |-> <<>>, ok |-> TRUE, t |-> 0,
             pre |-> [users |-> EmptyTable, sessions |-> EmptyTable, players |-> EmptyTable,
                      npcs |-> EmptyTable, inventory |-> EmptyTable,
                      skills |-> EmptyTable]]

Init ==
  /\ now = 0
  /\ users = EmptyTable
  /\ sessions = EmptyTable
  /\ players = EmptyTable
  /\ npcs = EmptyTable
  /\ inventory = EmptyTable
  /\ skills = EmptyTable
  /\ results = EmptyTable
  /\ heap = EmptyTable
  /\ last = InitLast

Next ==
  \/ \E c \in Ids, r \in RegisterInputs : register_user(c, r[1], r[2], r[3])
  \/ \E c \in Ids, l \in LoginInputs : login_user(c, l[1], l[2])
  \/ \E c \in Ids : logout_user(c)
  \/ \E c \in Ids, z \in Zones : join_game(c, z)
  \/ \E c \in Ids : leave_game(c)
  \/ \E c \in Ids : heartbeat(c)
  \/ \E c \in Ids, u \in Usernames : force_disconnect_user(c, u)
  \/ \E c \in Ids : handle_client_disconnected(c)
  \/ cleanup_inactive_sessions
  \/ cleanup_inactive_sessions_legacy
  \/ \E dt \in SessionTimeSteps : AdvanceTime(dt, MaxSessionTime)

Spec == Init /\ [][Next]_vars

-----------------------------------------------------------------------------
(* Movement specifications: identity "a" has joined, "b" has only logged   *)
(* in.  SpecMove has the ServerModule reducers, SpecMoveAll adds the two   *)
(* earlier copies of update_player_position.                               *)

MaxMoveTime == 2

\* <<x, y, z>> arguments, in hundredths of a unit
FinitePoints ==
  {<<F(0), F(0), F(0)>>, <<F(5000), F(0), F(0)>>, <<F(5100), F(0), F(0)>>,
   <<F(3000), F(0), F(4000)>>, <<F(0), F(4000), F(4000)>>}

NonFinitePoints == {<<NaN, F(0), F(0)>>, <<F(0), PosInf, F(0)>>, <<F(0), F(0), NegInf>>}

MovePoints == FinitePoints \cup NonFinitePoints

\* <<x, y, z>> arguments of change_zone
SpawnPoints == {<<F(5100), F(0), F(0)>>, <<F(0), NaN, F(0)>>}

Yaws == {F(0), F(90)}

RegisteredUser(i, name) ==
  [username |-> name, password_hash |-> hash_password("password1", generate_salt(i, 0)),
   password_salt |-> generate_salt(i, 0), is_active |-> TRUE]

\* both identities registered and logged in at time 0
InitUsers == [i \in Ids |-> RegisteredUser(i, IF i = "a" THEN "alice" ELSE "bob")]

InitSessions == [i \in Ids |-> [last_activity |-> 0]]

InitMove ==
  /\ now = 0
  /\ users = InitUsers
  /\ sessions = InitSessions
  /\ players = create_player(EmptyTable, "a", "alice", "default")
  /\ npcs = EmptyTable
  /\ inventory = EmptyTable
  /\ skills = EmptyTable
  /\ results = EmptyTable
  /\ heap = EmptyTable
  /\ last = InitLast

NextMove ==
  \/ \E c \in Ids, p \in MovePoints, yaw \in Yaws : update_player_position(c, p[1], p[2], p[3], yaw)
  \/ \E c \in Ids, p \in SpawnPoints, z \in Zones : change_zone(c, z, p[1], p[2], p[3])
  \/ \E c \in Ids : leave_game(c)
  \/ \E c \in Ids : logout_user(c)
  \/ AdvanceTime(1, MaxMoveTime)

SpecMove == InitMove /\ [][NextMove]_vars

NextMoveAll ==
  \/ NextMove
  \/ \E c \in Ids, p \in MovePoints : update_player_position_shared(c, p[1], p[2], p[3], F(90))
  \/ \E c \in Ids, p \in MovePoints : update_player_position_legacy(c, p[1], p[2], p[3], F(0))

SpecMoveAll == InitMove /\ [][NextMoveAll]_vars

-----------------------------------------------------------------------------
(* NPC specification: identity "a" stands at the origin, "b" eight units   *)
(* away on the x axis; both are online at first.  "z" is an identity that  *)
(* never registered.                                                       *)

Stranger == "z"

NpcTimeSteps == {29, 30}

\* <<npc_type, x, y, z>> arguments of spawn_npc
NpcSpawnInputs ==
  {<<"goblin", F(300), F(0), F(0)>>, <<"merchant", F(300), F(0), F(0)>>,
   <<"goblin", NaN, F(0), F(0)>>, <<"rat", F(0), F(WORLD_MAX + 1), F(0)>>}

Damages == {F(0), F(45), F(1000), F(-45)}

PlayerAt(ps, i, name, x) == [create_player(ps, i, name, "default") EXCEPT ![i].position_x = x]

InitNpc ==
  /\ now = 0
  /\ users = InitUsers
  /\ sessions = InitSessions
  /\ players = PlayerAt(PlayerAt(EmptyTable, "a", "alice", F(0)), "b", "bob", F(800))
  /\ npcs = EmptyTable
  /\ inventory = EmptyTable
  /\ skills = EmptyTable
  /\ results = EmptyTable
  /\ heap = EmptyTable
  /\ last = InitLast

\* a negative amount is only passed while the NPC's health does not exceed
\* its maximum, which keeps the reachable health values finite in number
DamageAllowed(npc_id, damage) ==
  FLt(damage, F(0)) => (npc_id \in DOMAIN npcs /\ FLe(npcs[npc_id].health, npcs[npc_id].max_health))

NextNpc ==
  \/ \E i \in NpcSpawnInputs : spawn_npc("a", i[1], i[2], i[3], i[4])
  \/ \E npc_id \in NpcIds : update_npc_ai(npc_id)
  \/ \E c \in Ids, npc_id \in NpcIds, damage \in Damages :
       DamageAllowed(npc_id, damage) /\ attack_npc(c, npc_id, damage)
  \/ \E npc_id \in NpcIds : attack_npc(Stranger, npc_id, F(45))
  \/ \E c \in Ids : leave_game(c)
  \/ \E dt \in NpcTimeSteps : AdvanceTime(dt, MaxNpcTime)

SpecNpc == InitNpc /\ [][NextNpc]_vars

-----------------------------------------------------------------------------
(* Tick specification: every NPC type, the players "a" at the origin and   *)
(* "b" at x = 8, who can leave, and the attacks of "a".                    *)

\* <<npc_type, x, y, z>> arguments of spawn_npc
TickSpawnInputs ==
  {<<t, F(300), F(0), F(0)>> : t \in {"goblin", "orc", "dragon", "merchant", "rat"}}

TickDamages == {F(40), F(45)}

\* attacks are taken on the NPC types of at most 100 health
TickDamageAllowed(npc_id) ==
  npc_id \in DOMAIN npcs => FLe(npcs[npc_id].max_health, F(100))

NextTick ==
  \/ \E i \in TickSpawnInputs : spawn_npc("a", i[1], i[2], i[3], i[4])
  \/ \E npc_id \in NpcIds : update_npc_ai(npc_id)
  \/ \E npc_id \in NpcIds, damage \in TickDamages :
       TickDamageAllowed(npc_id) /\ attack_npc("a", npc_id, damage)
  \/ \E c \in Ids : leave_game(c)

SpecTick == InitNpc /\ [][NextTick]_vars

-----------------------------------------------------------------------------
(* Spawn specification: spawn_npc for every type of the stats table and an *)
(* unlisted one, at points on, inside and outside the world bounds.        *)

\* coordinates: inside, on both bounds, a hundredth beyond them, not finite
SpawnCoordinates ==
  {F(0), F(WORLD_MAX), F(WORLD_MIN), F(WORLD_MAX + 1), F(WORLD_MIN - 1), NaN, PosInf, NegInf}

\* <<x, y, z>> arguments of spawn_npc: one coordinate varies at a time
SpawnPositions ==
  {<<x, F(300), F(0)>> : x \in SpawnCoordinates}
    \cup {<<F(300), y, F(0)>> : y \in SpawnCoordinates}
    \cup {<<F(300), F(0), z>> : z \in SpawnCoordinates}

SpawnTypes == {"goblin", "orc", "dragon", "merchant", "rat"}

NextSpawn ==
  \E c \in {"a", Stranger}, t \in SpawnTypes, p \in SpawnPositions : spawn_npc(c, t, p[1], p[2], p[3])

SpecSpawn == InitNpc /\ [][NextSpawn]_vars

-----------------------------------------------------------------------------
(* Bridge specification: the foreign caller obtains up to two result        *)
(* records from either library and hands them (or a null record) to the    *)
(* library's spacetimedb_free_result, any number of times.                 *)

InitFfi ==
  /\ now = 0
  /\ users = EmptyTable
  /\ sessions = EmptyTable
  /\ players = EmptyTable
  /\ npcs = EmptyTable
  /\ inventory = EmptyTable
  /\ skills = EmptyTable
  /\ results = EmptyTable
  /\ heap = EmptyTable
  /\ last = InitLast

NextFfi ==
  \/ \E r \in ResultRecords, d \in BridgeData : FFIResult_success(r, d)
  \/ \E r \in ResultRecords : FFIResult_error(r)
  \/ \E r \in ResultRecords, d \in ClientData : ClientModule_FFIResult_success(r, d)
  \/ \E r \in ResultRecords : ClientModule_FFIResult_error(r)
  \/ \E r \in ResultRecords \cup {NullPtr} : spacetimedb_free_result(r)
  \/ \E r \in ResultRecords \cup {NullPtr} : ClientModule_spacetimedb_free_result(r)

SpecFfi == InitFfi /\ [][NextFfi]_vars

-----------------------------------------------------------------------------
(* Settling specification: an NPC is spawned, attacked and left by players *)
(* until its first tick; from then on it is only ticked, so that the       *)
(* online players, their positions and its health stay as they are.  The   *)
(* tick is called periodically, hence weak fairness on it.                 *)

SettleXs == {0, 400, 1001, 1100, 1300}

SettleYs == {300}

\* <<npc_type, x, y, z>> arguments of spawn_npc
SettleSpawnInputs ==
  {<<t, F(x), F(y), F(0)>> : t \in {"goblin", "orc", "dragon", "merchant", "rat"}, x \in SettleXs, y \in SettleYs}

SettleDamages == {F(45), F(950)}

\* ticks that would take an NPC further than this from the origin are not taken
MaxCoordinate == 5000

InArena(ns) ==
  \A i \in DOMAIN ns :
    (ns[i].position_x.k = "num" /\ ns[i].position_y.k = "num") =>
      /\ ns[i].position_x.v \in -MaxCoordinate..MaxCoordinate
      /\ ns[i].position_y.v \in -MaxCoordinate..MaxCoordinate

\* an NPC has been ticked
Ticking == last.op = "update_npc_ai" /\ last.ok

SettleTick == \E npc_id \in NpcIds : update_npc_ai(npc_id) /\ InArena(npcs')

NextSettle ==
  \/ ~Ticking /\ \E i \in SettleSpawnInputs : spawn_npc("a", i[1], i[2], i[3], i[4])
  \/ ~Ticking /\ \E c \in Ids, damage \in SettleDamages : attack_npc(c, 1, damage)
  \/ ~Ticking /\ \E c \in Ids : leave_game(c)
  \/ SettleTick

SpecSettle == InitNpc /\ [][NextSettle]_vars /\ WF_vars(SettleTick)

-----------------------------------------------------------------------------
(* Inventory specification: both identities have joined.  "a" holds single *)
(* pieces of leather armor in slots 2..99, which leaves it the slots 0, 1  *)
(* and 100; "b" has 90 of 100 health and holds one bread.                  *)

\* item_id arguments; "elixir" is not in game_items
ItemArgs == {"potion_health", "elixir"}

AddQuantities == {0, 5, 15}

\* calls that would leave a slot with more than this are not taken
MaxQuantity == 20

QuantityBounded(inv) == \A i \in DOMAIN inv : inv[i].quantity <= MaxQuantity

InitInventory ==
  [i \in 1..99 |->
     IF i <= 98
     THEN [player_identity |-> "a", item_id |-> "armor_leather", quantity |-> 1, slot_index |-> i + 1]
     ELSE [player_identity |-> "b", item_id |-> "food_bread", quantity |-> 1, slot_index |-> 0]]

InitInv ==
  /\ now = 0
  /\ users = InitUsers
  /\ sessions = InitSessions
  /\ players = [PlayerAt(PlayerAt(EmptyTable, "a", "alice", F(0)), "b", "bob", F(800))
                  EXCEPT !["b"].health = F(90)]
  /\ npcs = EmptyTable
  /\ inventory = InitInventory
  /\ skills = EmptyTable
  /\ results = EmptyTable
  /\ heap = EmptyTable
  /\ last = InitLast

NextInv ==
  \/ \E item \in ItemArgs, q \in AddQuantities : add_item_to_inventory("a", item, q) /\ QuantityBounded(inventory')
  \/ \E u \in {"alice", "carol"}, item \in ItemArgs : give_item_to_player("b", u, item, 5) /\ QuantityBounded(inventory')
  \/ \E item \in ItemArgs : remove_item_from_inventory("a", item, 5)
  \/ \E c \in {"b", Stranger} : remove_item_from_inventory(c, "potion_health", 5)
  \/ \E item \in {"food_bread", "elixir"} : use_item("b", item)
  \/ use_item("a", "armor_leather")

SpecInv == InitInv /\ [][NextInv]_vars

-----------------------------------------------------------------------------
(* Quantity specification: "a" holds three potions in one slot and "b" one  *)
(* bread; quantities up to the top of the u32 range are added and given.   *)

\* quantity arguments; -5 is 4294967291, which is u32::MAX - 4
WideQuantities == {5, 15, -5}

MaxRows == 3

\* calls that would leave a slot with more than MaxQuantity, or more than
\* MaxRows rows in the table, are not taken
QuantityInBounds(inv) ==
  /\ Cardinality(DOMAIN inv) <= MaxRows
  /\ \A i \in DOMAIN inv : inv[i].quantity \in 0..MaxQuantity

InitQuantity ==
  /\ now = 0
  /\ users = InitUsers
  /\ sessions = InitSessions
  /\ players = PlayerAt(PlayerAt(EmptyTable, "a", "alice", F(0)), "b", "bob", F(800))
  /\ npcs = EmptyTable
  /\ inventory = [i \in 1..2 |->
                    IF i = 1
                    THEN [player_identity |-> "a", item_id |-> "potion_health", quantity |-> 3, slot_index |-> 0]
                    ELSE [player_identity |-> "b", item_id |-> "food_bread", quantity |-> 1, slot_index |-> 0]]
  /\ skills = EmptyTable
  /\ results = EmptyTable
  /\ heap = EmptyTable
  /\ last = InitLast

NextQuantity ==
  \/ \E q \in WideQuantities : add_item_to_inventory("a", "potion_health", q) /\ QuantityInBounds(inventory')
  \/ \E u \in {"alice", "bob"}, q \in WideQuantities :
       give_item_to_player("b", u, "potion_health", q) /\ QuantityInBounds(inventory')
  \/ \E c \in Ids : remove_item_from_inventory(c, "potion_health", 5)

SpecQuantity == InitQuantity /\ [][NextQuantity]_vars

-----------------------------------------------------------------------------
(* Skill specification: both identities have joined; there are no skill    *)
(* records yet.                                                            *)

MaxSkillTime == 1

\* gains are not taken beyond this level
MaxSkillLevel == 3

ExperienceGains == {0, 5, 125, 500}

LevelBounded(sk) == \A i \in DOMAIN sk : sk[i].skill_level <= MaxSkillLevel

InitSkill ==
  /\ now = 0
  /\ users = InitUsers
  /\ sessions = InitSessions
  /\ players = PlayerAt(PlayerAt(EmptyTable, "a", "alice", F(0)), "b", "bob", F(800))
  /\ npcs = EmptyTable
  /\ inventory = EmptyTable
  /\ skills = EmptyTable
  /\ results = EmptyTable
  /\ heap = EmptyTable
  /\ last = InitLast

NextSkill ==
  \/ \E a \in ExperienceGains : gain_skill_experience("a", "mining", a) /\ LevelBounded(skills')
  \/ \E c \in {"b", Stranger} : gain_skill_experience(c, "mining", 125) /\ LevelBounded(skills')
  \/ AdvanceTime(1, MaxSkillTime)

SpecSkill == InitSkill /\ [][NextSkill]_vars

-----------------------------------------------------------------------------
(* Player statistics specification: both identities have sessions, "a" has *)
(* joined and holds two health potions and an iron sword.                  *)

\* <<level, experience, health, max_health>> arguments of update_player_stats
StatsInputs ==
  {<<<<2>>, <<150>>, <<>>, <<>>>>, <<<<>>, <<>>, <<F(40)>>, <<>>>>, <<<<>>, <<>>, <<F(150)>>, <<>>>>,
   <<<<>>, <<>>, <<F(-5)>>, <<>>>>, <<<<>>, <<>>, <<NaN>>, <<>>>>, <<<<>>, <<>>, <<>>, <<F(30)>>>>,
   <<<<>>, <<>>, <<>>, <<F(0)>>>>, <<<<>>, <<>>, <<F(200)>>, <<F(200)>>>>, <<<<>>, <<>>, <<>>, <<NaN>>>>}

InitStats ==
  /\ now = 0
  /\ users = InitUsers
  /\ sessions = InitSessions
  /\ players = create_player(EmptyTable, "a", "alice", "default")
  /\ npcs = EmptyTable
  /\ inventory = Insert(Insert(EmptyTable, 1, [player_identity |-> "a", item_id |-> "potion_health",
                                               quantity |-> 2, slot_index |-> 0]),
                         2, [player_identity |-> "a", item_id |-> "sword_iron",
                             quantity |-> 1, slot_index |-> 1])
  /\ skills = EmptyTable
  /\ results = EmptyTable
  /\ heap = EmptyTable
  /\ last = InitLast

NextStats ==
  \/ \E i \in StatsInputs : update_player_stats("a", i[1], i[2], i[3], i[4])
  \/ update_player_stats("b", <<>>, <<>>, <<F(40)>>, <<>>)
  \/ join_game("a", "default")
  \/ \E c \in Ids : leave_game(c)
  \/ \E c \in Ids, item \in {"potion_health", "sword_iron"} : use_item(c, item)

SpecStats == InitStats /\ [][NextStats]_vars

-----------------------------------------------------------------------------
(* Properties: player movement and sessions                                *)

Finite3(x, y, z) == is_finite(x) /\ is_finite(y) /\ is_finite(z)

\* squared Euclidean distance between a stored position and a finite point
SqDistTo(player, x, y, z) ==
  (player.position_x.v - x.v) * (player.position_x.v - x.v)
  + (player.position_y.v - y.v) * (player.position_y.v - y.v)
  + (player.position_z.v - z.v) * (player.position_z.v - z.v)

\* the latest call was update_player_position by an identity with a player
\* row, from a finite stored position to a finite point
MoveCase ==
  /\ last.op = "update_player_position"
  /\ last.who \in DOMAIN last.pre.players
  /\ Finite3(last.pre.players[last.who].position_x, last.pre.players[last.who].position_y,
             last.pre.players[last.who].position_z)
  /\ Finite3(last.arg.x, last.arg.y, last.arg.z)

\* C8: update_player_position to a point farther than 50 units from the
\* stored position fails and leaves the player rows and the sessions as they
\* were; to a finite point at distance <= 50 it succeeds and the stored
\* position and yaw are the proposed ones.
C8_MovementAntiCheat ==
  MoveCase =>
    LET d2 == SqDistTo(last.pre.players[last.who], last.arg.x, last.arg.y, last.arg.z)
        limit == (50 * PosScale) * (50 * PosScale)
    IN  /\ d2 > limit => (~last.ok /\ players = last.pre.players /\ sessions = last.pre.sessions)
        /\ d2 <= limit =>
             /\ last.ok
             /\ players[last.who].position_x = last.arg.x
             /\ players[last.who].position_y = last.arg.y
             /\ players[last.who].position_z = last.arg.z
             /\ players[last.who].rotation_yaw = last.arg.yaw

\* a move of more than 50 units was refused at a time later than the
\* caller's last session activity
C8_Witness ==
  /\ MoveCase
  /\ SqDistTo(last.pre.players[last.who], last.arg.x, last.arg.y, last.arg.z)
       > (50 * PosScale) * (50 * PosScale)
  /\ last.who \in DOMAIN sessions
  /\ sessions[last.who].last_activity < now
  /\ last.pre.players[last.who].position_x # F(0)

UpdatePositionOps ==
  {"update_player_position", "update_player_position_shared", "update_player_position_legacy"}

\* C9: update_player_position (any of its three copies) with a NaN or
\* infinite x, y or z fails and leaves the player rows unchanged, and every
\* stored player position is finite.
C9_NonFiniteRejected ==
  /\ (/\ last.op \in UpdatePositionOps
      /\ last.who \in DOMAIN last.pre.players
      /\ ~Finite3(last.arg.x, last.arg.y, last.arg.z))
       => (~last.ok /\ players = last.pre.players)
  /\ \A i \in DOMAIN players :
       Finite3(players[i].position_x, players[i].position_y, players[i].position_z)

\* C10: every player whose online flag is true has a session row.
C10_OnlineImpliesSession ==
  \A i \in DOMAIN players : players[i].is_online => i \in DOMAIN sessions

\* one player is online with a session while the other has just been timed
\* out by the cleanup and is offline without a session
C10_Witness ==
  /\ last.op = "cleanup_inactive_sessions"
  /\ \E i \in last.arg.cleaned : i \in DOMAIN players /\ last.pre.players[i].is_online
                                  /\ ~players[i].is_online /\ i \notin DOMAIN sessions
  /\ \E j \in DOMAIN players : players[j].is_online /\ j \in DOMAIN sessions

\* the latest call was a cleanup of inactive sessions
CleanupCase == last.op \in {"cleanup_inactive_sessions", "cleanup_inactive_sessions_legacy"}

\* C11: a cleanup call at time t deletes every session whose last activity
\* is earlier than t - 300 s and leaves the player of that identity, if
\* there is one, offline.
C11_SessionTimeout ==
  CleanupCase =>
    \A i \in DOMAIN last.pre.sessions :
      (last.pre.sessions[i].last_activity < last.t - 300) =>
        /\ i \notin DOMAIN sessions
        /\ i \in DOMAIN players => ~players[i].is_online

\* the ServerModule cleanup timed out the session of an online player one
\* second past the threshold and kept a session that was still active
C11_Witness ==
  /\ last.op = "cleanup_inactive_sessions"
  /\ \E i \in DOMAIN last.pre.sessions :
       /\ last.pre.sessions[i].last_activity = last.t - 301
       /\ i \in DOMAIN last.pre.players /\ last.pre.players[i].is_online
       /\ i \notin DOMAIN sessions /\ ~players[i].is_online
  /\ \E j \in DOMAIN sessions : sessions[j].last_activity >= last.t - 300

\* C16: every player has max_health > 0 and 0 <= health <= max_health.
C16_PlayerHealthInvariant ==
  \A i \in DOMAIN players :
    /\ FGt(players[i].max_health, F(0))
    /\ FGe(players[i].health, F(0))
    /\ FLe(players[i].health, players[i].max_health)

\* C28: a join_game by a caller without a session fails and leaves the
\* players as they were; with a session it succeeds and sets the session's
\* last activity to the call timestamp, a first join creating the player at
\* (0, 0, 0) with level 1, health = max_health = 100 and online, a rejoin
\* setting online and the requested zone and nothing else.
C28_Join ==
  last.op = "join_game" =>
    LET c == last.who
    IN  IF c \notin DOMAIN last.pre.sessions
        THEN ~last.ok /\ players = last.pre.players
        ELSE /\ last.ok
             /\ sessions[c].last_activity = last.t
             /\ IF c \in DOMAIN last.pre.players
                THEN players = [last.pre.players EXCEPT
                                  ![c].is_online = TRUE,
                                  ![c].current_zone = last.arg.starting_zone]
                ELSE /\ DOMAIN players = DOMAIN last.pre.players \cup {c}
                     /\ \A i \in DOMAIN last.pre.players : players[i] = last.pre.players[i]
                     /\ players[c].position_x = F(0) /\ players[c].position_y = F(0)
                     /\ players[c].position_z = F(0)
                     /\ players[c].level = 1
                     /\ players[c].health = F(100) /\ players[c].max_health = F(100)
                     /\ players[c].is_online
                     /\ players[c].current_zone = last.arg.starting_zone

\* the step is a call of reducer op
Calls(op) == last' # last /\ last'.op = op

\* the step is a leave_game: the sessions stay as they are and the caller's
\* player, if there is one, is offline afterwards
LeaveStep ==
  Calls("leave_game") =>
    /\ sessions' = sessions
    /\ last'.who \in DOMAIN players => ~players'[last'.who].is_online

\* the step is a logout_user: the caller has no session afterwards and the
\* caller's player, if there is one, is offline
LogoutStep ==
  Calls("logout_user") =>
    /\ last'.who \notin DOMAIN sessions'
    /\ last'.who \in DOMAIN players => ~players'[last'.who].is_online

\* a join_game that directly follows the leave_game of a caller who has a
\* player and a session succeeds
JoinAfterLeave ==
  (/\ last.op = "leave_game"
   /\ last.who \in DOMAIN players /\ last.who \in DOMAIN sessions
   /\ Calls("join_game") /\ last'.who = last.who)
    => last'.ok

\* a join_game of a caller without a session fails, and only a successful
\* login_user of an identity gives it a session
NoJoinUntilLogin ==
  /\ (Calls("join_game") /\ last'.who \notin DOMAIN sessions) => ~last'.ok
  /\ \A c \in Ids :
       (c \notin DOMAIN sessions /\ c \in DOMAIN sessions')
         => (last'.op = "login_user" /\ last'.who = c /\ last'.ok)

\* C29: leave_game sets the caller's online flag to false and keeps the
\* session, so that a join_game directly after it succeeds; logout_user
\* deletes the session and sets the online flag to false, and from then on a
\* join_game of that identity fails until a successful login_user has
\* created a session for it.
C29_LeaveVersusLogout == [][LeaveStep /\ LogoutStep /\ JoinAfterLeave /\ NoJoinUntilLogin]_vars

\* an online player with a session has left: the player is offline and the
\* session is still there
C29_Witness ==
  /\ last.op = "leave_game"
  /\ last.who \in DOMAIN last.pre.players /\ last.pre.players[last.who].is_online
  /\ last.who \in DOMAIN sessions
  /\ ~players[last.who].is_online

\* C32: a cleanup call at time t leaves every session whose last activity
\* is not earlier than t - 300 s, one exactly at t - 300 s included, in the
\* table as it was, and leaves the player of that identity as it was.
C32_CleanupKeepsActive ==
  CleanupCase =>
    \A i \in DOMAIN last.pre.sessions :
      (last.pre.sessions[i].last_activity >= last.t - 300) =>
        /\ i \in DOMAIN sessions /\ sessions[i] = last.pre.sessions[i]
        /\ i \in DOMAIN last.pre.players =>
             (i \in DOMAIN players /\ players[i] = last.pre.players[i])

\* a cleanup kept the session of an online player whose last activity was
\* exactly 300 s before it
C32_Witness ==
  /\ CleanupCase
  /\ \E i \in DOMAIN sessions :
       /\ i \in DOMAIN last.pre.sessions
       /\ last.pre.sessions[i].last_activity = last.t - 300
       /\ i \in DOMAIN players /\ players[i].is_online

(* The game-state fields of a player row that the claim about offline
   players speaks of. *)
GameState(player) ==
  <<player.position_x, player.position_y, player.position_z, player.current_zone,
    player.level, player.experience, player.health>>

(* The last call was made by an identity whose player row was offline
   before the call, and was not a successful join_game. *)
OfflineCall ==
  /\ last.who \in DOMAIN last.pre.players
  /\ ~last.pre.players[last.who].is_online
  /\ ~(last.op = "join_game" /\ last.ok)

(* C40: offline players are frozen: a call by an identity whose player row
   is offline, other than a successful join, leaves the row's position,
   zone, level, experience and health as they were. *)
C40_OfflineFrozen ==
  (OfflineCall /\ last.who \in DOMAIN players) =>
    GameState(players[last.who]) = GameState(last.pre.players[last.who])

-----------------------------------------------------------------------------
(* Properties: NPC behaviour                                               *)

\* the latest call was a successful update_npc_ai of an existing NPC
TickCase == last.op = "update_npc_ai" /\ last.ok /\ last.arg.npc_id \in DOMAIN last.pre.npcs

\* the latest call was an attack_npc that passed its checks
AttackCase == last.op = "attack_npc" /\ last.ok

\* C1: a tick of an NPC that attack_npc killed at time t leaves it Dead when
\* the call time is before t + 30 s, and makes it Idle with health =
\* max_health when the call time is t + 30 s or later.
C1_Respawn ==
  (TickCase /\ last.pre.npcs[last.arg.npc_id].ai_state = "dead") =>
    LET before == last.pre.npcs[last.arg.npc_id]
        after == npcs[last.arg.npc_id]
    IN  IF last.t < before.respawn_time + 30
        THEN after.ai_state = "dead"
        ELSE after.ai_state = "idle" /\ after.health = after.max_health

\* C2: an attack_npc that passes its checks with an amount >= the NPC's
\* health leaves health 0, state Dead and respawn_time = the call timestamp.
C2_Kill ==
  (AttackCase /\ FGe(last.arg.damage, last.pre.npcs[last.arg.npc_id].health)) =>
    /\ npcs[last.arg.npc_id].health = F(0)
    /\ npcs[last.arg.npc_id].ai_state = "dead"
    /\ npcs[last.arg.npc_id].respawn_time = last.t

\* a living NPC was killed at a time other than its recorded respawn_time
C2_Witness ==
  /\ AttackCase
  /\ FGe(last.arg.damage, last.pre.npcs[last.arg.npc_id].health)
  /\ FGt(last.pre.npcs[last.arg.npc_id].health, F(0))
  /\ last.pre.npcs[last.arg.npc_id].ai_state # "dead"
  /\ last.pre.npcs[last.arg.npc_id].respawn_time # last.t

\* C3: after an attack_npc that leaves health above 0, an NPC that was Idle
\* is Chasing and an NPC in any other state is in the same state.
C3_Provoke ==
  (AttackCase /\ FGt(npcs[last.arg.npc_id].health, F(0))) =>
    IF last.pre.npcs[last.arg.npc_id].ai_state = "idle"
    THEN npcs[last.arg.npc_id].ai_state = "chasing"
    ELSE npcs[last.arg.npc_id].ai_state = last.pre.npcs[last.arg.npc_id].ai_state

\* an Idle NPC lost health to an attack and survived
C3_Witness ==
  /\ AttackCase
  /\ last.pre.npcs[last.arg.npc_id].ai_state = "idle"
  /\ FGt(last.arg.damage, F(0))
  /\ FGt(npcs[last.arg.npc_id].health, F(0))
  /\ FLt(npcs[last.arg.npc_id].health, last.pre.npcs[last.arg.npc_id].health)

\* the latest call was a tick of an NPC that directly followed another tick
\* of the same NPC
TwoTicks == TickCase /\ last.arg.prev # <<>>

\* for two ticks in succession: the first tick saw the NPC with health
\* above 0, and both ticks saw the same nearby players and the same health
\* band
SameConditions ==
  /\ FGt(last.arg.prev[1].npc.health, F(0))
  /\ last.arg.prev[1].nearby = last.arg.nearby
  /\ LowHealth(last.arg.prev[1].npc) = LowHealth(last.pre.npcs[last.arg.npc_id])

\* the latest tick changed neither the state nor the position
TickChangedNothing ==
  /\ npcs[last.arg.npc_id].ai_state = last.pre.npcs[last.arg.npc_id].ai_state
  /\ npcs[last.arg.npc_id].position_x = last.pre.npcs[last.arg.npc_id].position_x
  /\ npcs[last.arg.npc_id].position_y = last.pre.npcs[last.arg.npc_id].position_y
  /\ npcs[last.arg.npc_id].position_z = last.pre.npcs[last.arg.npc_id].position_z

\* C14 as stated: the second of two ticks in succession under the same
\* conditions changes neither the state nor the position.
C14_TickIdempotent == (TwoTicks /\ SameConditions) => TickChangedNothing

\* C14 amended: when the first of two ticks in succession under the same
\* conditions left the state of an NPC that is not Dead unchanged, the
\* second tick changes neither the state nor the position.
C14_TickStable ==
  (TwoTicks /\ SameConditions
     /\ last.arg.prev[1].npc.ai_state # "dead"
     /\ last.pre.npcs[last.arg.npc_id].ai_state = last.arg.prev[1].npc.ai_state)
    => TickChangedNothing

\* an Attacking NPC with a player nearby was ticked twice, the second time
\* later than the first
C14_Witness ==
  /\ TwoTicks /\ SameConditions
  /\ last.arg.prev[1].npc.ai_state = "attacking"
  /\ last.pre.npcs[last.arg.npc_id].ai_state = "attacking"
  /\ last.arg.nearby # {}
  /\ last.t > last.pre.npcs[last.arg.npc_id].respawn_time

\* C15: every NPC has 0 <= health <= max_health.
C15_NpcHealthInvariant ==
  \A i \in DOMAIN npcs : FGe(npcs[i].health, F(0)) /\ FLe(npcs[i].health, npcs[i].max_health)

\* the latest call was a tick or an attack that found its NPC
NpcCallCase == TickCase \/ AttackCase

\* C17: the call in which a living NPC dies records its own timestamp as the
\* respawn timestamp, and a tick or an attack on an NPC that is Dead and
\* stays Dead leaves the respawn timestamp as it was.
C17_DeathTimestampKept ==
  NpcCallCase =>
    LET before == last.pre.npcs[last.arg.npc_id]
        after == npcs[last.arg.npc_id]
    IN  /\ (before.ai_state # "dead" /\ FGt(before.health, F(0)) /\ after.ai_state = "dead")
             => after.respawn_time = last.t
        /\ (before.ai_state = "dead" /\ after.ai_state = "dead")
             => after.respawn_time = before.respawn_time

\* the NPC of the latest tick as the tick found it
Ticked == last.pre.npcs[last.arg.npc_id]

\* the latest tick found its NPC with health above 0, in the given state
TickOf(state) == TickCase /\ FGt(Ticked.health, F(0)) /\ Ticked.ai_state = state

\* the latest tick left the NPC where it was
TickKeptPosition ==
  /\ npcs[last.arg.npc_id].position_x = Ticked.position_x
  /\ npcs[last.arg.npc_id].position_y = Ticked.position_y
  /\ npcs[last.arg.npc_id].position_z = Ticked.position_z

\* C18: a tick on an Idle NPC of an aggressive type (goblin, orc, dragon)
\* with health above 0 and an online player within the perception radius
\* makes it Chasing.
C18_IdleToChasing ==
  (TickOf("idle") /\ Ticked.npc_type \in {"goblin", "orc", "dragon"} /\ last.arg.nearby # {})
    => npcs[last.arg.npc_id].ai_state = "chasing"

\* C19: a tick on an Idle NPC of a type that is not aggressive, with health
\* above 0, leaves it Idle and where it was when a player is nearby, and
\* makes it Patrolling when none is.
C19_IdleStaysIdle ==
  (TickOf("idle") /\ Ticked.npc_type \notin {"goblin", "orc", "dragon"}) =>
    IF last.arg.nearby # {}
    THEN npcs[last.arg.npc_id].ai_state = "idle" /\ TickKeptPosition
    ELSE npcs[last.arg.npc_id].ai_state = "patrolling"

\* C20: a tick on a Chasing or Attacking NPC with health above 0 gives Idle
\* when no online player is within the perception radius, otherwise Fleeing
\* when health < 20% of max_health, otherwise Attacking.
C20_ChasingAttackingRule ==
  (TickOf("chasing") \/ TickOf("attacking")) =>
    npcs[last.arg.npc_id].ai_state =
      (IF last.arg.nearby = {} THEN "idle"
       ELSE IF 5 * Ticked.health.v < Ticked.max_health.v THEN "fleeing"
       ELSE "attacking")

\* a Chasing NPC at a tenth of its health with no player nearby became Idle
C20_Witness ==
  /\ TickOf("chasing")
  /\ 5 * Ticked.health.v < Ticked.max_health.v
  /\ last.arg.nearby = {}
  /\ npcs[last.arg.npc_id].ai_state = "idle"

\* the NPC of the latest tick or attack as the call found it
CalledNpc == last.pre.npcs[last.arg.npc_id]

\* C21: a tick on a Fleeing NPC with health above 0 and an online player
\* within the perception radius leaves it Fleeing, and a tick or an attack
\* takes an NPC out of Fleeing only to Idle (a tick that saw no player
\* nearby) or to Dead.
C21_FleeingExit ==
  (NpcCallCase /\ CalledNpc.ai_state = "fleeing") =>
    /\ npcs[last.arg.npc_id].ai_state \in {"fleeing", "idle", "dead"}
    /\ (TickCase /\ FGt(CalledNpc.health, F(0)) /\ last.arg.nearby # {})
         => npcs[last.arg.npc_id].ai_state = "fleeing"
    /\ npcs[last.arg.npc_id].ai_state = "idle" => (TickCase /\ last.arg.nearby = {})

\* a Fleeing NPC that an attack had brought back above a fifth of its
\* health was ticked with a player nearby and stayed Fleeing
C21_Witness ==
  /\ TickOf("fleeing")
  /\ last.arg.nearby # {}
  /\ ~LowHealth(Ticked)
  /\ npcs[last.arg.npc_id].ai_state = "fleeing"

\* the x-y distance, in hundredths, between an NPC row and the player i
XYDistance(npc, i) ==
  LET dx == players[i].position_x.v - npc.position_x.v
      dy == players[i].position_y.v - npc.position_y.v
  IN  RoundSqrt(dx * dx + dy * dy)

\* the players the latest tick saw that no other player it saw is nearer to
\* the NPC than
Nearest == {i \in last.arg.nearby : \A j \in last.arg.nearby : XYDistance(Ticked, i) <= XYDistance(Ticked, j)}

\* the smaller of two integers
Min2(a, b) == IF a <= b THEN a ELSE b

\* C22: a tick that changes the state to Chasing or Attacking with several
\* online players within the perception radius moves the NPC toward the
\* nearest of them: with d its x-y distance to that player before the tick,
\* the distance after it is d - min(2.0, d), to the hundredth.
C22_PursuitNearest ==
  (TickCase /\ FGt(Ticked.health, F(0))
     /\ npcs[last.arg.npc_id].ai_state # Ticked.ai_state
     /\ npcs[last.arg.npc_id].ai_state \in {"chasing", "attacking"}
     /\ Cardinality(last.arg.nearby) >= 2)
    => \E i \in Nearest :
         LET d == XYDistance(Ticked, i)
             after == XYDistance(npcs[last.arg.npc_id], i)
         IN  /\ after <= d - Min2(ChaseSpeed, d) + 1
             /\ after >= d - Min2(ChaseSpeed, d) - 1

\* C23: a tick that leaves the state as it was leaves the position, the
\* health and the respawn timestamp as they were, and a tick that changes
\* the state to Idle or Dead leaves the position as it was.
C23_MovementOnlyOnChange ==
  TickCase =>
    /\ npcs[last.arg.npc_id].ai_state = Ticked.ai_state
         => /\ TickKeptPosition
            /\ npcs[last.arg.npc_id].health = Ticked.health
            /\ npcs[last.arg.npc_id].respawn_time = Ticked.respawn_time
    /\ (npcs[last.arg.npc_id].ai_state # Ticked.ai_state
          /\ npcs[last.arg.npc_id].ai_state \in {"idle", "dead"})
         => TickKeptPosition

\* an NPC that had moved while Chasing, Attacking or Fleeing became Idle on
\* a tick that saw no player
C23_Witness ==
  /\ TickCase
  /\ Ticked.ai_state \in {"chasing", "attacking", "fleeing"}
  /\ Ticked.position_x # F(300)
  /\ last.arg.nearby = {}
  /\ npcs[last.arg.npc_id].ai_state = "idle"

\* the square of the 3-D distance, in hundredths, between the caller of the
\* latest attack and its NPC, both as the call found them
AttackSqDistance ==
  LET p == last.pre.players[last.who]
      n == last.pre.npcs[last.arg.npc_id]
  IN  (p.position_x.v - n.position_x.v) * (p.position_x.v - n.position_x.v)
        + (p.position_y.v - n.position_y.v) * (p.position_y.v - n.position_y.v)
        + (p.position_z.v - n.position_z.v) * (p.position_z.v - n.position_z.v)

\* the latest attack was made without a player record, offline, on an NPC
\* that does not exist, or from more than 5.0 away
AttackBarred ==
  \/ last.who \notin DOMAIN last.pre.players
  \/ ~last.pre.players[last.who].is_online
  \/ last.arg.npc_id \notin DOMAIN last.pre.npcs
  \/ AttackSqDistance > (5 * PosScale) * (5 * PosScale)

\* C30: an attack_npc made without a player record, offline, on an NPC that
\* does not exist or from a 3-D distance above 5.0 fails and leaves the NPCs
\* as they were; any other attack, one from exactly 5.0 included, passes.
C30_AttackPreconditions ==
  last.op = "attack_npc" =>
    IF AttackBarred
    THEN ~last.ok /\ npcs = last.pre.npcs
    ELSE last.ok

\* an online player exactly 5.0 away attacked, and the NPC lost health
C30_Witness ==
  /\ last.op = "attack_npc" /\ last.ok
  /\ AttackSqDistance = (5 * PosScale) * (5 * PosScale)
  /\ FLt(npcs[last.arg.npc_id].health, last.pre.npcs[last.arg.npc_id].health)

\* the coordinate is finite and within [-10000, 10000]
InWorld(c) == c.k = "num" /\ c.v >= -10000 * PosScale /\ c.v <= 10000 * PosScale

\* the health the claim's type table gives
TableHealth(npc_type) ==
  CASE npc_type = "goblin" -> 50
    [] npc_type = "orc" -> 100
    [] npc_type = "dragon" -> 1000
    [] npc_type = "merchant" -> 100
    [] OTHER -> 50

\* C31: a spawn_npc with finite coordinates within [-10000, 10000] creates
\* exactly one NPC, Idle, at the given position, with health = max_health
\* from the type table, and changes no other NPC; with any other
\* coordinates it fails and the NPCs are as they were.
C31_Spawn ==
  last.op = "spawn_npc" =>
    IF InWorld(last.arg.x) /\ InWorld(last.arg.y) /\ InWorld(last.arg.z)
    THEN /\ last.ok
         /\ Cardinality(DOMAIN npcs \ DOMAIN last.pre.npcs) = 1
         /\ \A i \in DOMAIN last.pre.npcs : i \in DOMAIN npcs /\ npcs[i] = last.pre.npcs[i]
         /\ \A i \in DOMAIN npcs \ DOMAIN last.pre.npcs :
              /\ npcs[i].npc_type = last.arg.npc_type
              /\ npcs[i].ai_state = "idle"
              /\ npcs[i].health = F(TableHealth(last.arg.npc_type))
              /\ npcs[i].max_health = F(TableHealth(last.arg.npc_type))
              /\ npcs[i].position_x = last.arg.x /\ npcs[i].position_y = last.arg.y
              /\ npcs[i].position_z = last.arg.z
    ELSE ~last.ok /\ npcs = last.pre.npcs

\* a dragon was spawned on the upper bound of the world with 1000 health
C31_Witness ==
  /\ last.op = "spawn_npc" /\ last.ok
  /\ last.arg.npc_type = "dragon" /\ last.arg.x = F(10000 * PosScale)
  /\ \E i \in DOMAIN npcs : npcs[i].health = F(1000) /\ npcs[i].position_x = F(10000 * PosScale)

\* the players within the perception radius of the ticked NPC before the tick
InRange ==
  {i \in DOMAIN last.pre.players :
     FLe(calculate_distance(Ticked.position_x, Ticked.position_y, Ticked.position_z,
                            last.pre.players[i].position_x, last.pre.players[i].position_y,
                            last.pre.players[i].position_z), F(PerceptionRadius))}

OnlineInRange == {i \in InRange : last.pre.players[i].is_online}

\* C34: a tick moves an NPC from Idle or Patrolling into Chasing only if its
\* type is aggressive and an online player is within radius 10; with no
\* online player in range, a tick of a Chasing, Attacking or Fleeing NPC with
\* health above 0 returns it to Idle.
C34_PerceptionOnlineOnly ==
  TickCase =>
    /\ (Ticked.ai_state \in {"idle", "patrolling"} /\ npcs[last.arg.npc_id].ai_state = "chasing")
         => (Ticked.npc_type \in {"goblin", "orc", "dragon"} /\ OnlineInRange # {})
    /\ (Ticked.ai_state \in {"chasing", "attacking", "fleeing"} /\ FGt(Ticked.health, F(0))
          /\ OnlineInRange = {})
         => npcs[last.arg.npc_id].ai_state = "idle"

\* a Chasing, Attacking or Fleeing NPC returned to Idle while a player who
\* went offline still stood in range
C34_Witness ==
  /\ TickCase
  /\ Ticked.ai_state \in {"chasing", "attacking", "fleeing"}
  /\ FGt(Ticked.health, F(0))
  /\ InRange # {}
  /\ OnlineInRange = {}
  /\ npcs[last.arg.npc_id].ai_state = "idle"

\* C36: with non-negative damage amounts, in every state reached by spawn,
\* tick and attack an NPC's state is Dead exactly when its health is 0.
C36_DeadIffZeroHealth ==
  \A i \in DOMAIN npcs : (npcs[i].ai_state = "dead") <=> FEq(npcs[i].health, F(0))

\* a tick of an NPC that two attacks had killed
C36_Witness ==
  /\ TickCase
  /\ Ticked.ai_state = "dead"
  /\ FEq(Ticked.health, F(0))
  /\ Ticked.npc_type = "orc"
  /\ npcs[last.arg.npc_id].ai_state = "dead"
  /\ FEq(npcs[last.arg.npc_id].health, F(0))

-----------------------------------------------------------------------------
(* Properties: inventory                                                   *)

RECURSIVE SumQuantity(_, _)
\* the sum of the quantities of the rows S of inv
SumQuantity(inv, S) ==
  IF S = {} THEN 0
  ELSE LET i == CHOOSE j \in S : TRUE
       IN  inv[i].quantity + SumQuantity(inv, S \ {i})

\* the latest call was an add_item_to_inventory or give_item_to_player that
\* returned Ok
AddCase == last.op \in {"add_item_to_inventory", "give_item_to_player"} /\ last.ok

\* the rows of the item of the latest call that its owner held before it
HeldBefore == find_inventory_item(last.pre.inventory, last.arg.owner, last.arg.item_id)

\* the rows of the item of the latest call that its owner holds now
HeldAfter == find_inventory_item(inventory, last.arg.owner, last.arg.item_id)

\* C4: an add of q > max_stack_size for an owner holding none of the item
\* leaves slots of the item that each hold at most max_stack_size and that
\* sum to q.
C4_StackingOverflow ==
  (AddCase /\ HeldBefore = {}
     /\ last.arg.quantity > GameItems[last.arg.item_id].max_stack_size) =>
    /\ \A i \in HeldAfter : inventory[i].quantity <= GameItems[last.arg.item_id].max_stack_size
    /\ SumQuantity(inventory, HeldAfter) = last.arg.quantity

\* the other rows are as they were and no row was created
OnlyChanged(i) ==
  /\ DOMAIN inventory = DOMAIN last.pre.inventory
  /\ \A j \in DOMAIN inventory \ {i} : inventory[j] = last.pre.inventory[j]

\* row i now holds the quantity of the latest call on top of what it held,
\* in the same slot, and nothing else changed
MergedInto(i) ==
  /\ inventory[i] = [last.pre.inventory[i] EXCEPT
                       !.quantity = last.pre.inventory[i].quantity + last.arg.quantity]
  /\ OnlyChanged(i)

\* C5 as stated: an add of q merges into every slot of the item that the
\* owner holds with a quantity n such that n + q <= max_stack_size.
C5_MergeAnySlot ==
  AddCase =>
    \A i \in HeldBefore :
      (last.pre.inventory[i].quantity + last.arg.quantity
         <= GameItems[last.arg.item_id].max_stack_size) => MergedInto(i)

\* C5 amended: when the slot of the item that find_inventory_item returns
\* holds n and n + q <= max_stack_size, the add sets that slot's quantity to
\* n + q, keeps its slot index, creates no slot and changes no other slot.
C5_MergeFoundSlot ==
  (AddCase /\ last.arg.found # 0
     /\ last.pre.inventory[last.arg.found].quantity + last.arg.quantity
          <= GameItems[last.arg.item_id].max_stack_size) =>
    MergedInto(last.arg.found)

\* a slot of 5 potions received 5 more while the owner held another slot of
\* the item
C5_Witness ==
  /\ AddCase /\ last.arg.found # 0 /\ last.arg.quantity = 5
  /\ last.pre.inventory[last.arg.found].quantity = 5
  /\ Cardinality(HeldBefore) >= 2
  /\ inventory[last.arg.found].quantity = 10

\* C6: every inventory slot holds at least 1 and at most max_stack_size of
\* its item.
C6_QuantityInvariant ==
  \A i \in DOMAIN inventory :
    /\ 1 <= inventory[i].quantity
    /\ inventory[i].quantity <= GameItems[inventory[i].item_id].max_stack_size

\* C7: no two slots of one owner share a slot index, and every slot index is
\* in 0..100.
C7_SlotIndexInvariant ==
  /\ \A i, j \in DOMAIN inventory :
       (i # j /\ inventory[i].player_identity = inventory[j].player_identity)
         => inventory[i].slot_index # inventory[j].slot_index
  /\ \A i \in DOMAIN inventory : inventory[i].slot_index \in 0..100

\* an add created the slot with index 100 while the owner's slots 0..99
\* were all in use
C7_Witness ==
  /\ AddCase
  /\ used_slots(last.pre.inventory, last.arg.owner) = 0..99
  /\ \E i \in DOMAIN inventory \ DOMAIN last.pre.inventory :
       inventory[i].player_identity = last.arg.owner /\ inventory[i].slot_index = 100

\* the latest call was an add_item_to_inventory or give_item_to_player that
\* found its item and its owner
AddAttempt ==
  /\ last.op \in {"add_item_to_inventory", "give_item_to_player"}
  /\ last.arg.item_id \in DOMAIN GameItems
  /\ last.arg.owner \in Ids

\* the slot indices that the owner of the latest call did not use before it
FreeSlots == (0..100) \ used_slots(last.pre.inventory, last.arg.owner)

\* the latest add could not put its whole quantity into the slot it found
NeedsSlot ==
  \/ last.arg.found = 0
  \/ last.pre.inventory[last.arg.found].quantity + last.arg.quantity
       > GameItems[last.arg.item_id].max_stack_size

\* the rows the latest call created
Created == DOMAIN inventory \ DOMAIN last.pre.inventory

AddFailed == last.op \in {"add_item_to_inventory", "give_item_to_player"} /\ ~last.ok

RemoveCase == last.op = "remove_item_from_inventory" /\ last.arg.owner \in DOMAIN last.pre.players

\* the latest removal treated row i, which held n, as the claim says: more
\* than n asked, Err and nothing changed; n asked, row i deleted; less than
\* n asked, row i lowered by the request, slot index kept; in the last two
\* cases no other row changed
RemovedFrom(i) ==
  LET n == last.pre.inventory[i].quantity
      q == last.arg.quantity
  IN  IF q > n THEN ~last.ok /\ inventory = last.pre.inventory
      ELSE IF q = n THEN last.ok /\ inventory = Delete(last.pre.inventory, i)
      ELSE last.ok /\ inventory = [last.pre.inventory EXCEPT ![i].quantity = n - q]

UseCase ==
  /\ last.op = "use_item"
  /\ last.arg.owner \in DOMAIN last.pre.players
  /\ last.arg.item_id \in DOMAIN GameItems
  /\ HeldBefore # {}

\* the latest call changed neither the players nor the inventory
UsedNothing == players = last.pre.players /\ inventory = last.pre.inventory

\* the latest call took one unit of its item from its caller and changed
\* nothing else in the inventory
UsedOne ==
  /\ DOMAIN inventory \subseteq DOMAIN last.pre.inventory
  /\ \A j \in DOMAIN last.pre.inventory \ HeldBefore :
       j \in DOMAIN inventory /\ inventory[j] = last.pre.inventory[j]
  /\ SumQuantity(inventory, HeldAfter) = SumQuantity(last.pre.inventory, HeldBefore) - 1

\* C27: a use_item of a held consumable with heal amount h either sets the
\* caller's health to min(health + h, max_health) and removes exactly one
\* unit of the item from the caller's inventory, or fails, the slot it found
\* holding no unit, and changes nothing; a use_item of a held item of
\* another category fails and changes nothing.
C27_UseItem ==
  UseCase =>
    LET c == last.arg.owner
        item == GameItems[last.arg.item_id]
        before == last.pre.players[c]
    IN  IF item.item_type = "consumable"
        THEN \/ /\ last.ok
                /\ players = [last.pre.players EXCEPT
                                ![c].health = FMin(FAdd(before.health, F(item.heal)), before.max_health)]
                /\ UsedOne
             \/ /\ ~last.ok
                /\ last.pre.inventory[last.arg.found].quantity < 1
                /\ UsedNothing
        ELSE ~last.ok /\ UsedNothing

\* a potion was used at less than full health and the heal was cut off at
\* max_health
C27_Witness ==
  /\ UseCase /\ last.ok
  /\ last.pre.players[last.arg.owner].health.k = "num"
  /\ last.pre.players[last.arg.owner].max_health.k = "num"
  /\ last.pre.players[last.arg.owner].health.v < last.pre.players[last.arg.owner].max_health.v
  /\ last.pre.players[last.arg.owner].health.v + GameItems[last.arg.item_id].heal
       > last.pre.players[last.arg.owner].max_health.v
  /\ players[last.arg.owner].health = last.pre.players[last.arg.owner].max_health

\* the rows of an owner
SlotsOf(inv, owner) == {i \in DOMAIN inv : inv[i].player_identity = owner}

\* C35: an owner never holds more than 100 inventory slots, and an add that
\* needs a new slot for an owner who holds 100 slots fails.
C35_Capacity ==
  /\ \A owner \in Ids : Cardinality(SlotsOf(inventory, owner)) <= 100
  /\ (AddAttempt /\ NeedsSlot /\ Cardinality(SlotsOf(last.pre.inventory, last.arg.owner)) = 100)
       => ~last.ok

\* C37: a successful add of q increases the sum of the quantities over the
\* owner's slots of the item by exactly q, and leaves the slots of every
\* other owner and of every other item as they were.  (A q of 2^31 or more,
\* written as a negative integer, is no difference of two sums of slots that
\* each hold at most MaxQuantity.)
C37_AddConservation ==
  AddCase =>
    /\ last.arg.quantity >= 0
    /\ SumQuantity(inventory, HeldAfter) = SumQuantity(last.pre.inventory, HeldBefore) + last.arg.quantity
    /\ DOMAIN inventory \ HeldAfter = DOMAIN last.pre.inventory \ HeldBefore
    /\ \A i \in DOMAIN inventory \ HeldAfter : inventory[i] = last.pre.inventory[i]

\* the latest call was a remove_item_from_inventory by an identity that has
\* a player row
RemoveAttempt == last.op = "remove_item_from_inventory" /\ last.who \in DOMAIN last.pre.players

\* C38: a remove of q by a caller whose slots of the item sum to q or more
\* succeeds and reduces that sum by exactly q.
C38_RemoveAgainstTotal ==
  (RemoveAttempt /\ SumQuantity(last.pre.inventory, HeldBefore) >= last.arg.quantity) =>
    /\ last.ok
    /\ SumQuantity(inventory, HeldAfter) = SumQuantity(last.pre.inventory, HeldBefore) - last.arg.quantity

-----------------------------------------------------------------------------
(* Properties: skills                                                      *)

\* the latest call was a gain_skill_experience by a player
GainCase == last.op = "gain_skill_experience" /\ last.ok

\* the skill rows the latest call was about, before and after it
SkillBefore == find_player_skill(last.pre.skills, last.who, last.arg.skill_name)

SkillAfter == find_player_skill(skills, last.who, last.arg.skill_name)

\* C12: a gain of a on an existing skill record at level L with experience
\* e gives level L + 1 and experience e + a - required(L) when
\* e + a >= required(L), and level L with experience e + a otherwise.
C12_LevelingStep ==
  GainCase =>
    \A id \in SkillBefore :
      LET L == last.pre.skills[id].skill_level
          e == last.pre.skills[id].experience
          a == last.arg.experience_gained
          required == calculate_required_experience(L)
      IN  /\ id \in DOMAIN skills
          /\ IF e + a >= required
             THEN skills[id].skill_level = L + 1 /\ skills[id].experience = e + a - required
             ELSE skills[id].skill_level = L /\ skills[id].experience = e + a

\* a level-1 skill with 0 experience gained 125 and is at level 2 with 5
C12_Witness ==
  /\ GainCase /\ last.arg.experience_gained = 125
  /\ calculate_required_experience(1) = 120
  /\ \E id \in SkillBefore :
       /\ last.pre.skills[id].skill_level = 1 /\ last.pre.skills[id].experience = 0
       /\ skills[id].skill_level = 2 /\ skills[id].experience = 5

\* level >= 1 and 0 <= experience < required(level)
SkillInRange(skill) ==
  /\ skill.skill_level >= 1
  /\ 0 <= skill.experience
  /\ skill.experience < calculate_required_experience(skill.skill_level)

\* the gain of the latest call crossed at most one level threshold
CrossedAtMostOne ==
  IF SkillBefore = {}
  THEN last.arg.experience_gained
         < calculate_required_experience(1) + calculate_required_experience(2)
  ELSE \A id \in SkillBefore :
         last.pre.skills[id].experience + last.arg.experience_gained
           < calculate_required_experience(last.pre.skills[id].skill_level)
               + calculate_required_experience(last.pre.skills[id].skill_level + 1)

\* C13: a gain that crosses at most one level threshold, the first gain of a
\* skill included, applied to skill records that all have level >= 1 and
\* 0 <= experience < required(level), leaves all skill records so.
C13_ExperienceInvariant ==
  (GainCase /\ CrossedAtMostOne /\ \A i \in DOMAIN last.pre.skills : SkillInRange(last.pre.skills[i]))
    => \A i \in DOMAIN skills : SkillInRange(skills[i])

-----------------------------------------------------------------------------
(* Properties: foreign-function bridge                                     *)

FreeCase == last.op \in FreeOps

Pointers(record) == {record.error_message, record.data}

ReleasedBy == {a \in DOMAIN heap : heap[a].releases > last.arg.heap[a].releases}

\* C33: spacetimedb_free_result releases the error message and the data
\* buffer of a result record at most once each; the pointers it released are
\* null afterwards, a second call on the same record releases nothing, and a
\* call on a null record changes nothing.
C33_GuardedRelease ==
  /\ \A a \in DOMAIN heap : heap[a].releases <= 1
  /\ FreeCase =>
       IF last.arg.result = NullPtr
         THEN results = last.arg.results /\ heap = last.arg.heap
         ELSE /\ ReleasedBy \subseteq Pointers(last.arg.results[last.arg.result])
              /\ ReleasedBy \cap Pointers(results[last.arg.result]) = {}
              /\ \A r \in DOMAIN results \ {last.arg.result} : results[r] = last.arg.results[r]
              /\ last.arg.again => (heap = last.arg.heap /\ results = last.arg.results)

\* a second call on a record whose buffer the first call released
C33_Witness ==
  /\ FreeCase
  /\ last.arg.result # NullPtr
  /\ last.arg.again
  /\ \E a \in DOMAIN heap : heap[a].releases = 1
  /\ \A a \in DOMAIN heap : heap[a].releases = 1
  /\ Cardinality(DOMAIN heap) = 2

\* a call on a null record while both libraries' buffers are still held
C33_WitnessNull ==
  /\ FreeCase
  /\ last.arg.result = NullPtr
  /\ \E a \in DOMAIN heap : heap[a].releases = 0

====
